---- MODULE Spec2Model ----
(***************************************************************************)
(* DNS Intel (dnsinfo.lol): the DoH client, the propagation analyzer, the  *)
(* zone-health engine, the subdomain discovery pipeline and the referral   *)
(* part of the billing webhooks, as state machines translated from the     *)
(* TypeScript sources.  Every feature has its own specification over the   *)
(* shared variable list; the variables of the other features stay idle.    *)
(***************************************************************************)
EXTENDS Integers, Sequences, FiniteSets, TLC

VARIABLES
  \* ---- checkPropagation / queryDoHResolver (dnsResolver.ts)
  now,          \* wall clock, ms since the call started (Date.now())
  callState,    \* "idle" | "running" | "returned" | "rejected"
  pc,           \* per resolver: "idle" | "fetch" | "body" | "settled"
  timerArmed,   \* per resolver: the setTimeout of queryDoHResolver is pending
  deadline,     \* per resolver: the instant its timer fires
  queries,      \* per resolver: number of fetch() calls issued
  results,      \* the results array, in push order
  returned,     \* the value checkPropagation resolved with
  \* ---- analyzePropagation (dnsResolver.ts)
  anInput,      \* the results sequence handed to analyzePropagation
  anOutput,     \* its return value, or NoValue before the call
  \* ---- calculateScore / scoreToGrade (zoneHealth.ts)
  scIssues,     \* the issue list handed to calculateScore
  scSummary,    \* the summary handed to calculateScore
  scResult,     \* [score, grade], or NoValue before the call
  \* ---- analyzeZoneHealth / getAllDNSRecords
  zState,       \* "idle" | "fetching" | "done"
  zZone,        \* what the resolver answers per record type (environment)
  zFailure,     \* per record type, the message a failing fetch throws (environment)
  zPending,     \* record types whose map callback has not finished
  zRecords,     \* getAllDNSRecords: records, a map from type to answers
  zErrors,      \* getAllDNSRecords: errors, in push order
  zFailed,      \* record types whose fetch threw (history)
  zReport,      \* the ZoneHealthReport, or NoValue before the return
  \* ---- enumerateSubdomains (subdomainEnum.ts)
  eState,       \* "idle" | "ct" | "ctLoop" | "wordlist" | "done"
  eOpts,        \* the options argument
  ctCall,       \* the crt.sh request: "none" | "headers" | "body" | "settled" | "failed"
  ctSubdomains, \* what queryCertificateTransparency returned
  ctIdx,        \* index of the candidate the for loop is at
  ctProbe,      \* its awaited call: "none" | "dnsHeaders" | "dnsBody" | "ssl"
  eCur,         \* the SubdomainResult of that candidate, under construction
  subdomains,   \* the subdomains array, in push order
  seenDomains,  \* the seenDomains set
  ctCount,      \* entries pushed by the certificate-transparency phase
  commonCount,  \* entries pushed by the wordlist phase
  wlProbes,     \* per wordlist callback: [sub, stage, ipAddresses]
  eTimers,      \* outbound calls whose abort timer is armed
  eResult,      \* the SubdomainEnumerationResult, or NoValue
  \* ---- billing webhooks and referrals (billing.ts, Subscription.ts, Referral.ts)
  bUsers,       \* ids of the registered users
  bSubs,        \* table subscriptions, in insertion order
  bReferrals,   \* table referral_conversions, in insertion order
  bCredits,     \* table credits, in insertion order
  bClock,       \* CURRENT_TIMESTAMP as a counter
  bInbox,       \* webhook events Stripe has queued and not yet delivered
  bPurchases,   \* completed checkouts, in order (history)
  \* ---- rateLimiter middleware (rateLimiter.ts)
  rlNow,          \* Date.now(), ms since the server started
  rateLimitStore, \* the Map from fingerprint to RateLimitEntry
  rlKeyUsed,      \* api_keys rows whose last_used_at is set
  rlLog,          \* free-tier decisions, in order (history)
  rlResponse,     \* what the middleware did with the last request
  \* ---- one call of a pure function
  fnInput,      \* the argument
  fnOutput      \* the return value, or NoValue before the call

propVars == <<now, callState, pc, timerArmed, deadline, queries, results, returned>>
anVars   == <<anInput, anOutput>>
scVars   == <<scIssues, scSummary, scResult>>
zoneVars == <<zState, zZone, zFailure, zPending, zRecords, zErrors, zFailed, zReport>>
enumVars == <<eState, eOpts, ctCall, ctSubdomains, ctIdx, ctProbe, eCur, subdomains,
              seenDomains, ctCount, commonCount, wlProbes, eTimers, eResult>>
billVars == <<bUsers, bSubs, bReferrals, bCredits, bClock, bInbox, bPurchases>>
limitVars == <<rlNow, rateLimitStore, rlKeyUsed, rlLog, rlResponse>>
fnVars   == <<fnInput, fnOutput>>
vars     == <<propVars, anVars, scVars, zoneVars, enumVars, billVars, limitVars, fnVars>>

\* the variables a feature leaves alone
notProp  == <<anVars, scVars, zoneVars, enumVars, billVars, limitVars, fnVars>>
notAn    == <<propVars, scVars, zoneVars, enumVars, billVars, limitVars, fnVars>>
notScore == <<propVars, anVars, zoneVars, enumVars, billVars, limitVars, fnVars>>
notZone  == <<propVars, anVars, scVars, enumVars, billVars, limitVars, fnVars>>
notEnum  == <<propVars, anVars, scVars, zoneVars, billVars, limitVars, fnVars>>
notBilling == <<propVars, anVars, scVars, zoneVars, enumVars, limitVars, fnVars>>
notLimit == <<propVars, anVars, scVars, zoneVars, enumVars, billVars, fnVars>>
notFn    == <<propVars, anVars, scVars, zoneVars, enumVars, billVars, limitVars>>

NoValue == [none |-> TRUE]

----------------------------------------------------------------------------
(* Bounds of the model *)

\* number of registry entries the propagation fan-out is checked over
NumResolvers == 3
\* granularity of the model clock and the last instant it reaches, in ms
TickMs == 2000
MaxTimeMs == 10000
\* longest result sequence handed to analyzePropagation
MaxResults == 4
\* longest issue list handed to calculateScore on its own
MaxIssues == 6
\* largest nsCount / mxCount handed to calculateScore on its own
MaxCount == 2
\* largest maxResults option given to enumerateSubdomains
MaxResultsOption == 3
\* most certificates in a crt.sh answer
MaxCerts == 2
\* users that can register
NumUsers == 3
\* completed checkouts, over all users
MaxPurchases == 2
\* granularity of the limiter's clock and the last instant it reaches, in ms
RlTickMs == 43200000
MaxRlTimeMs == 129600000
\* free-tier requests the limiter decides
MaxRequests == 6
\* most A records handed to validateA on its own
MaxARecords == 2
\* largest Status code in a DoH body
MaxStatusCode == 6
\* wordlist names the TLS probe is tried on, on its own
MaxProbedNames == 8
\* most records of one type handed to a validator on its own
MaxRecordsPerType == 2
\* largest record type code given to queryDoHResolver as a number
MaxTypeCode == 260

----------------------------------------------------------------------------
(* Helpers *)

Min(a, b) == IF a <= b THEN a ELSE b
Max(a, b) == IF a >= b THEN a ELSE b

\* String.prototype.includes: sub occurs in s as a contiguous substring
Includes(s, sub) ==
  \E i \in 1..(Len(s) - Len(sub) + 1) : SubSeq(s, i, i + Len(sub) - 1) = sub

\* String.prototype.startsWith
StartsWith(s, prefix) ==
  Len(s) >= Len(prefix) /\ SubSeq(s, 1, Len(prefix)) = prefix

\* UTF-16 code unit order of the characters of host names, addresses and
\* labels: a character is smaller when it stands earlier in this string
ASCII == " *-.0123456789:@ABCDEFGHIJKLMNOPQRSTUVWXYZ_abcdefghijklmnopqrstuvwxyz"
CharCode(c) == CHOOSE i \in 1..Len(ASCII) : SubSeq(ASCII, i, i) = c
CharAt(s, i) == SubSeq(s, i, i)

\* a < b under the default comparison of Array.prototype.sort and of the
\* < operator on strings (code unit by code unit, a proper prefix first)
StrLess(a, b) ==
  \E i \in 1..(Min(Len(a), Len(b)) + 1) :
    /\ SubSeq(a, 1, i - 1) = SubSeq(b, 1, i - 1)
    /\ \/ i > Len(a) /\ i <= Len(b)
       \/ /\ i <= Len(a) /\ i <= Len(b)
          /\ CharCode(CharAt(a, i)) < CharCode(CharAt(b, i))

\* Array.prototype.sort() without comparator: stable insertion of each
\* element behind the elements that are not greater
RECURSIVE InsertSorted(_, _)
InsertSorted(sorted, x) ==
  IF sorted = <<>> THEN <<x>>
  ELSE IF StrLess(x, Head(sorted)) THEN <<x>> \o sorted
  ELSE <<Head(sorted)>> \o InsertSorted(Tail(sorted), x)
RECURSIVE SortStrings(_)
SortStrings(seq) ==
  IF seq = <<>> THEN <<>>
  ELSE InsertSorted(SortStrings(SubSeq(seq, 1, Len(seq) - 1)), seq[Len(seq)])

\* Array.prototype.join
RECURSIVE Join(_, _)
Join(seq, sep) ==
  IF seq = <<>> THEN ""
  ELSE IF Len(seq) = 1 THEN seq[1]
  ELSE seq[1] \o sep \o Join(Tail(seq), sep)

\* Array.prototype.filter and flat
FilterStep(acc, x, keep) == IF keep THEN Append(acc, x) ELSE acc
Filter(seq, P(_)) ==
  LET F[i \in 0..Len(seq)] ==
        IF i = 0 THEN <<>> ELSE FilterStep(F[i - 1], seq[i], P(seq[i]))
  IN F[Len(seq)]
RECURSIVE Flat(_)
Flat(seqs) == IF seqs = <<>> THEN <<>> ELSE Head(seqs) \o Flat(Tail(seqs))

\* [...new Set(seq)]: the distinct elements in order of first occurrence
RECURSIVE Unique(_)
UniqueStep(init, x) ==
  IF \E k \in 1..Len(init) : init[k] = x THEN init ELSE Append(init, x)
Unique(seq) ==
  IF seq = <<>> THEN <<>>
  ELSE UniqueStep(Unique(SubSeq(seq, 1, Len(seq) - 1)), seq[Len(seq)])

\* the k-th smallest element of a finite set of integers
KthOf(S, k) == CHOOSE p \in S : Cardinality({q \in S : q < p}) = k - 1

\* String.prototype.split(sep) for a one-character separator: the pieces
\* between consecutive occurrences of sep, empty pieces included
SplitChar(s, sep) ==
  LET seps == {i \in 1..Len(s) : CharAt(s, i) = sep}
      n == Cardinality(seps)
      from(k) == IF k = 1 THEN 1 ELSE KthOf(seps, k - 1) + 1
      to(k) == IF k = n + 1 THEN Len(s) ELSE KthOf(seps, k) - 1
  IN [k \in 1..(n + 1) |-> SubSeq(s, from(k), to(k))]

\* String.prototype.split(/\s+/): as split, a run of blanks is one separator
SplitWS(s) ==
  LET blank(i) == CharAt(s, i) = " "
      starts == {i \in 1..Len(s) : blank(i) /\ (i = 1 \/ ~blank(i - 1))}
      ends == {i \in 1..Len(s) : blank(i) /\ (i = Len(s) \/ ~blank(i + 1))}
      n == Cardinality(starts)
      from(k) == IF k = 1 THEN 1 ELSE KthOf(ends, k - 1) + 1
      to(k) == IF k = n + 1 THEN Len(s) ELSE KthOf(starts, k) - 1
  IN [k \in 1..(n + 1) |-> SubSeq(s, from(k), to(k))]

DIGITS == "0123456789"
IsDigit(c) == \E k \in 1..Len(DIGITS) : CharAt(DIGITS, k) = c
DigitValue(c) == (CHOOSE k \in 1..Len(DIGITS) : CharAt(DIGITS, k) = c) - 1
AllDigits(s) == Len(s) > 0 /\ \A i \in 1..Len(s) : IsDigit(CharAt(s, i))

\* parseInt(s) for unsigned decimal input: the value of the longest digit
\* prefix, NaN when there is none
NaN == [nan |-> TRUE, val |-> 0]
\* the length of the longest prefix of s made of digits
DigitPrefixLen(s) ==
  CHOOSE n \in 0..Len(s) :
    /\ \A i \in 1..n : IsDigit(CharAt(s, i))
    /\ n = Len(s) \/ ~IsDigit(CharAt(s, n + 1))
RECURSIVE DecimalValue(_)
DecimalValue(digits) ==
  IF Len(digits) = 0 THEN 0
  ELSE 10 * DecimalValue(SubSeq(digits, 1, Len(digits) - 1))
       + DigitValue(CharAt(digits, Len(digits)))
ParseInt(s) ==
  LET n == DigitPrefixLen(s)
  IN IF n = 0 THEN NaN ELSE [nan |-> FALSE, val |-> DecimalValue(SubSeq(s, 1, n))]
\* a < n and a > n for a number a that may be NaN (both false for NaN)
NumLess_orEqual(a, n) == ~a.nan /\ a.val <= n
NumLess(a, n) == ~a.nan /\ a.val < n
NumGreater(a, n) == ~a.nan /\ a.val > n
NumText(a) == IF a.nan THEN "NaN" ELSE ToString(a.val)

UPPER == "ABCDEFGHIJKLMNOPQRSTUVWXYZ"
LOWER == "abcdefghijklmnopqrstuvwxyz"
LowerChar(c) ==
  IF \E k \in 1..Len(UPPER) : CharAt(UPPER, k) = c
    THEN CharAt(LOWER, CHOOSE k \in 1..Len(UPPER) : CharAt(UPPER, k) = c)
    ELSE c
ToLowerCase_asIs(s) == s
\* String.prototype.toLowerCase, character by character
RECURSIVE ToLowerCase(_)
ToLowerCase(s) ==
  IF Len(s) = 0 THEN ""
  ELSE IF Len(s) = 1 THEN LowerChar(s)
  ELSE ToLowerCase(SubSeq(s, 1, Len(s) \div 2))
       \o ToLowerCase(SubSeq(s, Len(s) \div 2 + 1, Len(s)))

\* Array.prototype.slice(-n)
LastN(seq, n) == SubSeq(seq, Max(1, Len(seq) - n + 1), Len(seq))

----------------------------------------------------------------------------
(* Resolver registry: dnsResolver.ts GLOBAL_RESOLVERS, in property order *)

GLOBAL_RESOLVERS ==
  << [key |-> "google_us",     name |-> "Google Public DNS"],
     [key |-> "cloudflare_us", name |-> "Cloudflare DNS"],
     [key |-> "quad9_eu",      name |-> "Quad9 DNS"],
     [key |-> "dns_sb_asia",   name |-> "DNS.SB"],
     [key |-> "adguard",       name |-> "AdGuard DNS"],
     [key |-> "nextdns",       name |-> "NextDNS"],
     [key |-> "control_d",     name |-> "Control D"] >>

\* Object.entries(GLOBAL_RESOLVERS), cut to the modelled fan-out width
RegistryEntries == SubSeq(GLOBAL_RESOLVERS, 1, Min(NumResolvers, Len(GLOBAL_RESOLVERS)))
Resolvers == 1..Len(RegistryEntries)

\* the timeout checkPropagation passes to queryDoHResolver
PROPAGATION_TIMEOUT_MS == 8000

----------------------------------------------------------------------------
(* queryDoHResolver: the errors it throws, by message *)

MSG_TIMEOUT == "Request timeout"
\* `HTTP ${response.status}: ${response.statusText}`
HttpErrorMessages == {"HTTP 429: Too Many Requests"}
\* the URL queryDoHResolver fetches: the endpoint with name and type set
RequestUrl(endpoint, domain, type) == endpoint \o "?name=" \o domain \o "&type=" \o type
\* node-fetch FetchError of a failed connection; it names the URL
FetchErrorMessage(url, reason) == "request to " \o url \o " failed, reason: " \o reason
\* node-fetch FetchError of response.json(); it names the URL
InvalidJsonMessage(url, reason) ==
  "invalid json response body at " \o url \o " reason: " \o reason
NetworkErrorMessages ==
  {FetchErrorMessage(RequestUrl("https://dns.google/resolve", "example.com", "A"),
                     "connect ECONNREFUSED 8.8.8.8:443")}
MSG_INVALID_JSON ==
  InvalidJsonMessage(RequestUrl("https://dns.google/resolve", "example.com", "A"),
                     "Unexpected token < in JSON at position 0")

\* the catch block of queryDoHResolver: an AbortError is rethrown as
\* Error('Request timeout'), every other error is rethrown unchanged
QueryErrorMessage(errName, errMessage) ==
  IF errName = "AbortError" THEN MSG_TIMEOUT ELSE errMessage

\* checkPropagation's catch: status of a failed resolver
PropagationStatus_alwaysError(message) == "error"
PropagationStatus(message) ==
  IF Includes(message, "timeout") THEN "timeout" ELSE "error"

----------------------------------------------------------------------------
(* checkPropagation *)

AllSettled(p) == \A i \in Resolvers : p[i] = "settled"

\* results.push(...) in one map callback; when it was the last callback,
\* Promise.all resolves and checkPropagation returns the results array
PushResult(i, r) ==
  /\ results' = Append(results, r)
  /\ pc' = [pc EXCEPT ![i] = "settled"]
  /\ timerArmed' = [timerArmed EXCEPT ![i] = FALSE]
  /\ IF AllSettled(pc')
       THEN callState' = "returned" /\ returned' = results'
       ELSE UNCHANGED <<callState, returned>>

\* the try branch: the query resolved with a response
OnQuerySuccess(i) ==
  PushResult(i, [resolver |-> RegistryEntries[i].name, status |-> "success",
                 hasResponse |-> TRUE, latencyMs |-> now, error |-> ""])

\* the catch branch: the query threw
OnQueryError_rethrow(i, message) ==
  /\ callState' = "rejected"
  /\ pc' = [pc EXCEPT ![i] = "settled"]
  /\ timerArmed' = [timerArmed EXCEPT ![i] = FALSE]
  /\ UNCHANGED <<results, returned>>
OnQueryError(i, message) ==
  PushResult(i, [resolver |-> RegistryEntries[i].name,
                 status |-> PropagationStatus(message),
                 hasResponse |-> FALSE, latencyMs |-> now, error |-> message])

\* checkPropagation is called: every map callback runs up to its first
\* await, so one fetch per resolver is in flight and every timer is armed
StartCheckPropagation ==
  /\ callState = "idle"
  /\ callState' = "running"
  /\ pc' = [i \in Resolvers |-> "fetch"]
  /\ timerArmed' = [i \in Resolvers |-> TRUE]
  /\ deadline' = [i \in Resolvers |-> now + PROPAGATION_TIMEOUT_MS]
  /\ queries' = [i \in Resolvers |-> queries[i] + 1]
  /\ UNCHANGED <<now, results, returned, notProp>>

\* time passes; a pending timer fires at its deadline, so the clock never
\* moves past the deadline of an armed timer
ArmedDeadlines == {deadline[i] : i \in {j \in Resolvers : timerArmed[j]}}
Tick ==
  /\ callState = "running"
  /\ \A d \in ArmedDeadlines : d > now
  /\ now + TickMs <= MaxTimeMs
  /\ now' = IF \E d \in ArmedDeadlines : d < now + TickMs
              THEN CHOOSE d \in ArmedDeadlines : \A e \in ArmedDeadlines : d <= e
              ELSE now + TickMs
  /\ UNCHANGED <<callState, pc, timerArmed, deadline, queries, results, returned, notProp>>

\* fetch resolved with a 2xx response: clearTimeout, then await response.json()
HeadersOk(i) ==
  /\ callState = "running" /\ pc[i] = "fetch"
  /\ pc' = [pc EXCEPT ![i] = "body"]
  /\ timerArmed' = [timerArmed EXCEPT ![i] = FALSE]
  /\ UNCHANGED <<now, callState, deadline, queries, results, returned, notProp>>

\* fetch resolved with a non-2xx response: throw Error(`HTTP ...`)
HeadersNotOk(i) ==
  /\ callState = "running" /\ pc[i] = "fetch"
  /\ \E m \in HttpErrorMessages : OnQueryError(i, QueryErrorMessage("Error", m))
  /\ UNCHANGED <<now, deadline, queries, notProp>>

\* fetch rejected: connection failure
NetworkError(i) ==
  /\ callState = "running" /\ pc[i] = "fetch"
  /\ \E m \in NetworkErrorMessages : OnQueryError(i, QueryErrorMessage("FetchError", m))
  /\ UNCHANGED <<now, deadline, queries, notProp>>

\* the timer fired: controller.abort() rejects the pending fetch with AbortError
TimerFire(i) ==
  /\ callState = "running" /\ pc[i] = "fetch"
  /\ timerArmed[i] /\ now >= deadline[i]
  /\ OnQueryError(i, QueryErrorMessage("AbortError", "The user aborted a request."))
  /\ UNCHANGED <<now, deadline, queries, notProp>>

\* response.json() resolved: the response is built and returned
BodyParsed(i) ==
  /\ callState = "running" /\ pc[i] = "body"
  /\ OnQuerySuccess(i)
  /\ UNCHANGED <<now, deadline, queries, notProp>>

\* response.json() rejected: the body is not JSON
BodyInvalid(i) ==
  /\ callState = "running" /\ pc[i] = "body"
  /\ OnQueryError(i, QueryErrorMessage("FetchError", MSG_INVALID_JSON))
  /\ UNCHANGED <<now, deadline, queries, notProp>>

IdleProp ==
  /\ now = 0
  /\ callState = "idle"
  /\ pc = [i \in Resolvers |-> "idle"]
  /\ timerArmed = [i \in Resolvers |-> FALSE]
  /\ deadline = [i \in Resolvers |-> 0]
  /\ queries = [i \in Resolvers |-> 0]
  /\ results = <<>>
  /\ returned = <<>>

IdleAn == anInput = <<>> /\ anOutput = NoValue

IdleScore ==
  /\ scIssues = <<>>
  /\ scSummary = NoValue
  /\ scResult = NoValue

IdleZone ==
  /\ zState = "idle"
  /\ zZone = NoValue
  /\ zFailure = NoValue
  /\ zPending = {}
  /\ zRecords = <<>>
  /\ zErrors = <<>>
  /\ zFailed = {}
  /\ zReport = NoValue

IdleEnum ==
  /\ eState = "idle"
  /\ eOpts = NoValue
  /\ ctCall = "none"
  /\ ctSubdomains = <<>>
  /\ ctIdx = 0
  /\ ctProbe = "none"
  /\ eCur = NoValue
  /\ subdomains = <<>>
  /\ seenDomains = {}
  /\ ctCount = 0
  /\ commonCount = 0
  /\ wlProbes = <<>>
  /\ eTimers = {}
  /\ eResult = NoValue

IdleBilling ==
  /\ bUsers = {}
  /\ bSubs = <<>>
  /\ bReferrals = <<>>
  /\ bCredits = <<>>
  /\ bClock = 0
  /\ bInbox = {}
  /\ bPurchases = <<>>

IdleLimit ==
  /\ rlNow = 0
  /\ rateLimitStore = <<>>
  /\ rlKeyUsed = {}
  /\ rlLog = <<>>
  /\ rlResponse = NoValue

IdleFn == fnInput = NoValue /\ fnOutput = NoValue

InitProp ==
  /\ IdleProp /\ IdleAn /\ IdleScore /\ IdleZone /\ IdleEnum /\ IdleBilling
  /\ IdleLimit /\ IdleFn

NextProp ==
  \/ StartCheckPropagation
  \/ Tick
  \/ \E i \in Resolvers : HeadersOk(i)
  \/ \E i \in Resolvers : HeadersNotOk(i)
  \/ \E i \in Resolvers : NetworkError(i)
  \/ \E i \in Resolvers : TimerFire(i)
  \/ \E i \in Resolvers : BodyParsed(i)
  \/ \E i \in Resolvers : BodyInvalid(i)

SpecProp == InitProp /\ [][NextProp]_vars

----------------------------------------------------------------------------
(* analyzePropagation *)

\* Math.round(x / n * 100) for 0 <= x <= n, n > 0: halves round up
RoundPercent_floor(x, n) == (100 * x) \div n
RoundPercent(x, n) == (200 * x + n) \div (2 * n)

\* the IP list of one successful result: A and AAAA data, sorted
SortedIPs(r) ==
  LET IsAddr(a) == a.typeName = "A" \/ a.typeName = "AAAA"
      addr == Filter(r.answer, IsAddr)
  IN SortStrings([k \in 1..Len(addr) |-> addr[k].data])

DiscrepancyText(resolver, ips) ==
  resolver \o " returned different IPs: " \o Join(ips, ", ")

\* the loop over ipSets[1..]: every set that differs from ipSets[0] is
\* reported under the resolver of successful[i]
RECURSIVE Discrepancies(_, _, _)
Discrepancies(successful, ipSets, i) ==
  IF i > Len(ipSets) THEN <<>>
  ELSE (IF ipSets[i] # ipSets[1]
          THEN <<DiscrepancyText(successful[i].resolver, ipSets[i])>>
          ELSE <<>>) \o Discrepancies(successful, ipSets, i + 1)

SummaryText_byPercentage(propagated, percentage) ==
  IF percentage >= 70
    THEN "DNS records have propagated to " \o ToString(percentage)
         \o "% of global resolvers with consistent results."
  ELSE "DNS records have only propagated to " \o ToString(percentage)
       \o "% of global resolvers. Propagation may still be in progress."
SummaryText(propagated, percentage) ==
  IF propagated
    THEN "DNS records have propagated to " \o ToString(percentage)
         \o "% of global resolvers with consistent results."
  ELSE IF percentage < 70
    THEN "DNS records have only propagated to " \o ToString(percentage)
         \o "% of global resolvers. Propagation may still be in progress."
  ELSE "DNS records show inconsistencies across global resolvers. This may indicate ongoing propagation or configuration issues."

analyzePropagation(rs) ==
  LET IsSuccess(r) == r.status = "success"
      HasAnswer(r) == r.hasResponse
      successful == Filter(rs, IsSuccess)
      percentage == RoundPercent(Len(successful), Len(rs))
      withAnswer == Filter(successful, HasAnswer)
      ipSets == [k \in 1..Len(withAnswer) |-> SortedIPs(withAnswer[k])]
      allIPs == Unique(Flat(ipSets))
      discrepancies == IF Len(ipSets) > 1
                         THEN Discrepancies(successful, ipSets, 2) ELSE <<>>
      consistentRecords == discrepancies = <<>>
      propagated == percentage >= 70 /\ consistentRecords
  IN [propagated |-> propagated, percentage |-> percentage,
      consistentRecords |-> consistentRecords,
      summary |-> SummaryText(propagated, percentage),
      ipAddresses |-> allIPs, discrepancies |-> discrepancies]

\* answers a resolver can give to an A query: the addresses in either
\* order, one of them, none, or an alias in front of the address
IP1 == "192.0.2.1"
IP2 == "198.51.100.7"
ARecord(ip) == [typeName |-> "A", data |-> ip]
SampleAnswers ==
  { <<>>, <<ARecord(IP1)>>, <<ARecord(IP2)>>,
    <<ARecord(IP1), ARecord(IP2)>>, <<ARecord(IP2), ARecord(IP1)>>,
    <<[typeName |-> "CNAME", data |-> "edge.example.net."], ARecord(IP1)>> }

\* what checkPropagation can push for one resolver
SampleOutcomes ==
  {[status |-> "success", hasResponse |-> TRUE, answer |-> a] : a \in SampleAnswers}
  \cup {[status |-> s, hasResponse |-> FALSE, answer |-> <<>>] : s \in {"error", "timeout"}}

SampleResults(n) ==
  { [k \in 1..n |-> [resolver |-> GLOBAL_RESOLVERS[k].name, status |-> f[k].status,
                      hasResponse |-> f[k].hasResponse, answer |-> f[k].answer]] :
      f \in [1..n -> SampleOutcomes] }

\* what checkPropagation returns: one result per registry entry, each a
\* success with one of two addresses or an error
RegistryOutcomes ==
  {[status |-> "success", hasResponse |-> TRUE, answer |-> <<ARecord(ip)>>] :
     ip \in {IP1, IP2}}
  \cup {[status |-> "error", hasResponse |-> FALSE, answer |-> <<>>]}
SampleRegistryResults ==
  { [k \in 1..Len(GLOBAL_RESOLVERS) |->
       [resolver |-> GLOBAL_RESOLVERS[k].name, status |-> f[k].status,
        hasResponse |-> f[k].hasResponse, answer |-> f[k].answer]] :
      f \in [1..Len(GLOBAL_RESOLVERS) -> RegistryOutcomes] }

AnalyzePropagation ==
  /\ anOutput = NoValue
  /\ anOutput' = analyzePropagation(anInput)
  /\ UNCHANGED <<anInput, notAn>>

InitAnalyze ==
  /\ IdleProp /\ IdleScore /\ IdleZone /\ IdleEnum /\ IdleBilling /\ IdleLimit /\ IdleFn
  /\ \/ \E n \in 1..MaxResults : anInput \in SampleResults(n)
     \/ anInput \in SampleRegistryResults
  /\ anOutput = NoValue

NextAnalyze == AnalyzePropagation

SpecAnalyze == InitAnalyze /\ [][NextAnalyze]_vars

\* the successful results of the input and their sorted IP lists
AnSuccessful == {k \in 1..Len(anInput) : anInput[k].status = "success"}

\* C5: if all successful resolvers returned the same sorted IP set, the
\* analysis is consistent with no discrepancies; if exactly one successful
\* resolver deviates from the set all the others agree on, the analysis is
\* inconsistent and the discrepancies name that resolver with its IP list,
\* wherever it stands in the result sequence.
C5_DeviatingResolverNamed ==
  anOutput # NoValue =>
    LET ips(k) == SortedIPs(anInput[k]) IN
    /\ (\A i, j \in AnSuccessful : ips(i) = ips(j)) =>
         anOutput.consistentRecords /\ anOutput.discrepancies = <<>>
    /\ \A d \in AnSuccessful :
         ( /\ Cardinality(AnSuccessful) >= 3
           /\ \A i, j \in AnSuccessful \ {d} : ips(i) = ips(j)
           /\ \A i \in AnSuccessful \ {d} : ips(i) # ips(d) ) =>
         /\ ~anOutput.consistentRecords
         /\ \E k \in 1..Len(anOutput.discrepancies) :
              anOutput.discrepancies[k] =
                DiscrepancyText(anInput[d].resolver, ips(d))

----------------------------------------------------------------------------
(* Claims about checkPropagation and queryDoHResolver (SpecProp) *)

ResolverOf(seq) == [k \in 1..Len(seq) |-> seq[k].resolver]
RegistryNames == [i \in Resolvers |-> RegistryEntries[i].name]

\* C1: whatever the completion order of the per-resolver calls, the sequence
\* checkPropagation returns lists the resolvers in registry iteration order.
C1_RegistryOrder ==
  callState = "returned" => ResolverOf(returned) = RegistryNames

\* C2: checkPropagation issues exactly one query per registered resolver and
\* returns exactly one result per resolver for every combination of
\* outcomes; failures never reject the call and never cause a second query.
C2_OneQueryOneResult ==
  /\ callState # "rejected"
  /\ \A i \in Resolvers : queries[i] <= 1
  /\ callState \in {"running", "returned"} => \A i \in Resolvers : queries[i] = 1
  /\ Cardinality({i \in Resolvers : pc[i] \in {"fetch", "body"}}) <= Len(GLOBAL_RESOLVERS)
  /\ callState = "returned" =>
       /\ Len(returned) = Len(RegistryEntries)
       /\ \A i \in Resolvers :
            Cardinality({k \in 1..Len(returned) :
                           returned[k].resolver = RegistryEntries[i].name}) = 1

\* every resolver failed, by error and by timeout, and the call returned
C2_Witness ==
  /\ callState = "returned"
  /\ \A k \in 1..Len(returned) : returned[k].status # "success"
  /\ \E k \in 1..Len(returned) : returned[k].status = "timeout"
  /\ \E k \in 1..Len(returned) : returned[k].status = "error"

\* C3: a queryDoHResolver call settles no later than timeoutMs after it was
\* made, whatever the endpoint does (also when the headers arrive in time
\* and the body never does).
C3_HardDeadline ==
  \A i \in Resolvers : pc[i] \in {"fetch", "body"} => now <= deadline[i]

\* C4: a resolver that never responds is reported with status "timeout" and
\* the latency at which its 8 s deadline fired; no call still waits for
\* response headers after the deadline, so once the deadline has passed the
\* call has returned unless some resolver is in the middle of a response.
C4_SilentResolverTimesOut ==
  /\ \A k \in 1..Len(results) :
       results[k].error = MSG_TIMEOUT =>
         /\ results[k].status = "timeout"
         /\ results[k].latencyMs = PROPAGATION_TIMEOUT_MS
  /\ \A i \in Resolvers : pc[i] = "fetch" => now <= deadline[i]
  /\ (callState = "running" /\ now > PROPAGATION_TIMEOUT_MS) =>
       \E i \in Resolvers : pc[i] = "body"

\* one resolver stayed silent until its deadline, another answered, and the
\* call returned
C4_Witness ==
  /\ callState = "returned"
  /\ now = PROPAGATION_TIMEOUT_MS
  /\ \E k \in 1..Len(returned) :
       returned[k].error = MSG_TIMEOUT /\ returned[k].status = "timeout"
  /\ \E k \in 1..Len(returned) : returned[k].status = "success"
----------------------------------------------------------------------------
(* Zone health: the rule checks of zoneHealth.ts *)

Issue(sev, cat, msg) == [severity |-> sev, category |-> cat, message |-> msg]
DataOf(records) == [k \in 1..Len(records) |-> records[k].data]
SeqToSet(seq) == {seq[k] : k \in 1..Len(seq)}

validateSOA(records) ==
  IF Len(records) = 0 THEN <<Issue("critical", "SOA", "No SOA record found")>>
  ELSE
    LET soa == records[1]
        parts == SplitWS(soa.data)
    IN IF Len(parts) < 7 THEN <<>>
       ELSE
         LET rname == parts[2]
             refreshInt == ParseInt(parts[4])
         IN (IF NumLess(refreshInt, 1200)
               THEN <<Issue("warning", "SOA",
                       "SOA refresh interval (" \o NumText(refreshInt) \o "s) is too low")>>
             ELSE IF NumGreater(refreshInt, 43200)
               THEN <<Issue("info", "SOA",
                       "SOA refresh interval (" \o NumText(refreshInt) \o "s) is quite high")>>
             ELSE <<>>)
            \o (IF soa.TTL < 300
                  THEN <<Issue("warning", "SOA",
                          "SOA TTL (" \o ToString(soa.TTL) \o "s) is very low")>>
                  ELSE <<>>)
            \o (IF rname = "" \/ ~Includes(rname, ".")
                  THEN <<Issue("warning", "SOA", "SOA administrator email appears malformed")>>
                  ELSE <<>>)

validateNS(records) ==
  IF Len(records) = 0 THEN <<Issue("critical", "NS", "No NS records found")>>
  ELSE
    LET nsHosts == [k \in 1..Len(records) |-> ToLowerCase(records[k].data)]
        networks == {Join(LastN(SplitChar(nsHosts[k], "."), 3), ".") : k \in 1..Len(nsHosts)}
    IN (IF Len(records) < 2
          THEN <<Issue("warning", "NS",
                  "Only " \o ToString(Len(records)) \o " NS record(s) found")>>
          ELSE <<>>)
       \o (IF Cardinality(networks) = 1 /\ Len(records) > 1
             THEN <<Issue("warning", "NS", "All nameservers appear to be on the same network")>>
             ELSE <<>>)

PRIVATE_PREFIXES ==
  <<"10.", "172.16.", "172.17.", "172.18.", "172.19.", "172.2", "172.30.", "172.31.",
    "192.168.", "127.">>
IsPrivateIP(ip) == \E k \in 1..Len(PRIVATE_PREFIXES) : StartsWith(ip, PRIVATE_PREFIXES[k])

validateA(records) ==
  IF Len(records) = 0 THEN <<Issue("info", "A", "No A records found for root domain")>>
  ELSE
    LET IsPrivate(r) == IsPrivateIP(r.data)
        IsLowTTL(r) == r.TTL < 60
        privateIPs == Filter(records, IsPrivate)
        lowTTL == Filter(records, IsLowTTL)
    IN (IF Len(privateIPs) > 0
          THEN <<Issue("critical", "A",
                  "A record(s) point to private IP address(es): "
                    \o Join(DataOf(privateIPs), ", "))>>
          ELSE <<>>)
       \o (IF Len(lowTTL) > 0
             THEN <<Issue("info", "A",
                     "Very low TTL (" \o ToString(lowTTL[1].TTL) \o "s) on A records")>>
             ELSE <<>>)

\* /^\d+\.\d+\.\d+\.\d+$/.test(host)
IsDottedQuad(host) ==
  LET parts == SplitChar(host, ".")
  IN Len(parts) = 4 /\ \A k \in 1..4 : AllDigits(parts[k])

MXEntry_wholeData(r) == [priority |-> 0, host |-> r.data]
\* one MX record as { priority, host }
MXEntry(r) ==
  LET parts == SplitWS(r.data)
      prio == ParseInt(parts[1])
  IN [priority |-> IF prio.nan THEN 0 ELSE prio.val,
      host |-> IF Len(parts) >= 2 /\ parts[2] # "" THEN parts[2] ELSE r.data]

validateMX(records) ==
  IF Len(records) = 0 THEN <<Issue("info", "MX", "No MX records found")>>
  ELSE
    LET mxEntries == [k \in 1..Len(records) |-> MXEntry(records[k])]
        priorities == {mxEntries[k].priority : k \in 1..Len(mxEntries)}
        PointsToIP(m) == IsDottedQuad(m.host)
        ipMX == Filter(mxEntries, PointsToIP)
    IN (IF Cardinality(priorities) = 1 /\ Len(mxEntries) > 1
          THEN <<Issue("warning", "MX", "All MX records have the same priority")>>
          ELSE <<>>)
       \o (IF Len(ipMX) > 0
             THEN <<Issue("critical", "MX", "MX record(s) point directly to IP addresses")>>
             ELSE <<>>)

validateTXT(records) ==
  IF Len(records) = 0
    THEN [issues |-> <<Issue("info", "TXT", "No TXT records found")>>,
          hasSPF |-> FALSE, hasDKIM |-> FALSE, hasDMARC |-> FALSE]
  ELSE
    LET IsSPF(r) == Includes(ToLowerCase(r.data), "v=spf1")
        IsDMARC(r) == Includes(ToLowerCase(r.data), "v=dmarc1")
        spfRecords == Filter(records, IsSPF)
        dmarcRecords == Filter(records, IsDMARC)
        spf == spfRecords[1].data
        issues ==
          IF Len(spfRecords) = 0
            THEN <<Issue("warning", "TXT", "No SPF record found")>>
          ELSE IF Len(spfRecords) > 1
            THEN <<Issue("critical", "TXT",
                    "Multiple SPF records found (" \o ToString(Len(spfRecords)) \o ")")>>
          ELSE IF ~Includes(spf, "~all") /\ ~Includes(spf, "-all") /\ ~Includes(spf, "?all")
            THEN <<Issue("warning", "TXT", "SPF record missing \"all\" mechanism")>>
          ELSE <<>>
    IN [issues |-> issues, hasSPF |-> Len(spfRecords) > 0, hasDKIM |-> FALSE,
        hasDMARC |-> Len(dmarcRecords) > 0]

\* the switch of calculateScore: what one issue takes off the score
Deduction(severity) ==
  CASE severity = "critical" -> 20
    [] severity = "warning" -> 10
    [] severity = "info" -> 2
    [] OTHER -> 0

\* Math.max(0, Math.min(100, score))
Clamp_noFloor(score) == Min(100, score)
Clamp(score) == Max(0, Min(100, score))

calculateScore(issues, summary) ==
  LET afterIssues[i \in 0..Len(issues)] ==
        IF i = 0 THEN 100 ELSE afterIssues[i - 1] - Deduction(issues[i].severity)
      score == afterIssues[Len(issues)]
               + (IF summary.nsCount >= 2 THEN 5 ELSE 0)
               + (IF summary.hasSPF THEN 5 ELSE 0)
               + (IF summary.hasDMARC THEN 5 ELSE 0)
               + (IF summary.mxCount >= 2 THEN 3 ELSE 0)
  IN Clamp(score)

scoreToGrade(score) ==
  IF score >= 90 THEN "A"
  ELSE IF score >= 80 THEN "B"
  ELSE IF score >= 70 THEN "C"
  ELSE IF score >= 60 THEN "D"
  ELSE "F"

----------------------------------------------------------------------------
(* calculateScore and scoreToGrade on their own *)

Severities == {"critical", "warning", "info"}
SampleIssueLists ==
  UNION {[1..n -> {Issue(sev, "General", "") : sev \in Severities}] : n \in 0..MaxIssues}
SampleSummaries ==
  [nsCount : 0..MaxCount, mxCount : 0..MaxCount, hasSPF : BOOLEAN, hasDMARC : BOOLEAN]

CalculateScore ==
  /\ scResult = NoValue
  /\ LET score == calculateScore(scIssues, scSummary)
     IN scResult' = [score |-> score, grade |-> scoreToGrade(score)]
  /\ UNCHANGED <<scIssues, scSummary, notScore>>

InitScore ==
  /\ IdleProp /\ IdleAn /\ IdleZone /\ IdleEnum /\ IdleBilling /\ IdleLimit /\ IdleFn
  /\ scIssues \in SampleIssueLists
  /\ scSummary \in SampleSummaries
  /\ scResult = NoValue

NextScore == CalculateScore

SpecScore == InitScore /\ [][NextScore]_vars

CountSeverity(issues, sev) == Cardinality({k \in 1..Len(issues) : issues[k].severity = sev})

\* the closed form of the score before clamping
RawScore(issues, summary) ==
  100 - 20 * CountSeverity(issues, "critical")
      - 10 * CountSeverity(issues, "warning")
      - 2 * CountSeverity(issues, "info")
      + (IF summary.nsCount >= 2 THEN 5 ELSE 0)
      + (IF summary.hasSPF THEN 5 ELSE 0)
      + (IF summary.hasDMARC THEN 5 ELSE 0)
      + (IF summary.mxCount >= 2 THEN 3 ELSE 0)

\* C7: overallScore = max(0, min(100, 100 - 20*critical - 10*warning - 2*info
\* + 5 if nsCount >= 2 + 5 if hasSPF + 5 if hasDMARC + 3 if mxCount >= 2)),
\* it lies in 0..100, and the grade is A from 90, B from 80, C from 70,
\* D from 60 and F below.
C7_ScoreAndGrade ==
  scResult # NoValue =>
    LET raw == RawScore(scIssues, scSummary)
        expected == IF raw < 0 THEN 0 ELSE IF raw > 100 THEN 100 ELSE raw
    IN /\ scResult.score = expected
       /\ scResult.score \in 0..100
       /\ scResult.grade = "A" <=> scResult.score >= 90
       /\ scResult.grade = "B" <=> scResult.score \in 80..89
       /\ scResult.grade = "C" <=> scResult.score \in 70..79
       /\ scResult.grade = "D" <=> scResult.score \in 60..69
       /\ scResult.grade = "F" <=> scResult.score < 60

\* a raw sum below zero was clamped to 0 and graded F
C7_Witness ==
  /\ scResult # NoValue
  /\ RawScore(scIssues, scSummary) < 0
  /\ scResult = [score |-> 0, grade |-> "F"]
----------------------------------------------------------------------------
(* analyzeZoneHealth over getAllDNSRecords *)

\* getAllDNSRecords: recordTypes
RECORD_TYPES == <<"A", "AAAA", "CNAME", "MX", "NS", "TXT", "SOA", "CAA">>
RecordTypeSet == SeqToSet(RECORD_TYPES)

Rec(type, ttl, data) == [typeName |-> type, TTL |-> ttl, data |-> data]

\* what the resolver holds for the queried domain: a zone that trips the
\* rule checks
ZoneSloppy ==
  [t \in RecordTypeSet |->
     CASE t = "A"    -> <<Rec("A", 30, "10.0.0.5")>>
       [] t = "NS"   -> <<Rec("NS", 3600, "ns1.sloppy.test.")>>
       [] t = "SOA"  -> <<Rec("SOA", 120, "ns1.sloppy.test. hostmaster 1 600 300 86400 60")>>
       [] t = "MX"   -> <<Rec("MX", 300, "10 203.0.113.5"),
                          Rec("MX", 300, "10 mail.sloppy.test.")>>
       [] t = "TXT"  -> <<Rec("TXT", 300, "v=spf1 a"), Rec("TXT", 300, "V=SPF1 mx ~all"),
                          Rec("TXT", 300, "v=DMARC1; p=none")>>
       [] OTHER      -> <<>>]
SampleZones == {ZoneSloppy}

\* zones in good order: one public A record, two nameservers, one SOA with
\* every field in range, no MX, with or without an SPF record; nameserver
\* names as relative names and as the absolute names an answer carries
SampleTidyA == {Rec("A", 300, "93.184.216.34"), Rec("A", 60, "93.184.216.34")}
SampleTidyNS ==
  {<<Rec("NS", 86400, "a.iana-servers.net"), Rec("NS", 86400, "b.iana-servers.net")>>,
   <<Rec("NS", 86400, "a.iana-servers.net."), Rec("NS", 86400, "b.iana-servers.net.")>>,
   <<Rec("NS", 3600, "ns1.example.com."), Rec("NS", 3600, "ns2.example.org.")>>}
SampleTidyTXT == {<<>>, <<Rec("TXT", 300, "v=spf1 -all")>>}
TidyZone(a, ns, txt) ==
  [t \in RecordTypeSet |->
     CASE t = "A"    -> <<a>>
       [] t = "NS"   -> ns
       [] t = "SOA"  -> <<Rec("SOA", 3600,
                           "ns.icann.org. noc.dns.icann.org. 2024081434 7200 3600 1209600 3600")>>
       [] t = "TXT"  -> txt
       [] OTHER      -> <<>>]
SampleTidyZones ==
  {TidyZone(a, ns, txt) : a \in SampleTidyA, ns \in SampleTidyNS, txt \in SampleTidyTXT}

\* what a failing queryDoHResolver call throws, per record type: a rate
\* limit answer for some types and the abort of the timer for the others
ZoneFailures ==
  [t \in RecordTypeSet |->
     IF t \in {"A", "MX", "SOA", "CAA"} THEN "HTTP 429: Too Many Requests" ELSE MSG_TIMEOUT]
SampleFailures == {ZoneFailures}

\* records[type] || []
RecordsOf(records, t) == IF t \in DOMAIN records THEN records[t] ELSE <<>>

\* getAllDNSRecords, try branch: a non-empty answer is stored under its type
StoreAnswer(records, t, answer) ==
  IF Len(answer) > 0
    THEN [x \in (DOMAIN records) \cup {t} |-> IF x = t THEN answer ELSE records[x]]
    ELSE records

\* getAllDNSRecords, catch branch: the failure is pushed onto errors
OnFetchError_swallow(errors, t, message) == errors
OnFetchError(errors, t, message) ==
  Append(errors, "Failed to fetch " \o t \o " records: " \o message)

\* the rule checks of analyzeZoneHealth, in the order it runs them
RuleResults(records) ==
  LET txtResult == validateTXT(RecordsOf(records, "TXT"))
  IN [issues |-> validateSOA(RecordsOf(records, "SOA"))
                 \o validateNS(RecordsOf(records, "NS"))
                 \o validateA(RecordsOf(records, "A"))
                 \o validateMX(RecordsOf(records, "MX"))
                 \o txtResult.issues,
      txtResult |-> txtResult]

\* the record maps getAllDNSRecords can return for the sample zones, and
\* the rule results of each, evaluated once
Restrict(f, S) == [x \in S |-> f[x]]
Held(z) == {t \in RecordTypeSet : Len(z[t]) > 0}
PossibleRecords ==
  UNION {{Restrict(z, S) : S \in SUBSET Held(z)} : z \in SampleZones \cup SampleTidyZones}
RuleResultsTable == [r \in PossibleRecords |-> RuleResults(r)]
RuleResultsOf(records) == RuleResultsTable[records]

\* errors become warning/General issues
GeneralIssues(errors) ==
  [k \in 1..Len(errors) |-> Issue("warning", "General", errors[k])]

\* analyzeZoneHealth after getAllDNSRecords has returned
BuildReport(records, errors) ==
  LET rules == RuleResultsOf(records)
      issues == GeneralIssues(errors) \o rules.issues
      txtResult == rules.txtResult
      summary == [hasSOA |-> Len(RecordsOf(records, "SOA")) > 0,
                  hasNS |-> Len(RecordsOf(records, "NS")) > 0,
                  hasA |-> Len(RecordsOf(records, "A")) > 0,
                  hasMX |-> Len(RecordsOf(records, "MX")) > 0,
                  hasSPF |-> txtResult.hasSPF,
                  hasDKIM |-> txtResult.hasDKIM,
                  hasDMARC |-> txtResult.hasDMARC,
                  nsCount |-> Len(RecordsOf(records, "NS")),
                  mxCount |-> Len(RecordsOf(records, "MX")),
                  ttlConsistent |-> TRUE]
      score == calculateScore(issues, summary)
  IN [overallScore |-> score, grade |-> scoreToGrade(score), issues |-> issues,
      records |-> records, summary |-> summary]

\* one map callback of getAllDNSRecords finished; after the last one
\* Promise.all resolves and analyzeZoneHealth builds and returns the report
CallbackDone(t) ==
  /\ zPending' = zPending \ {t}
  /\ IF zPending' = {}
       THEN zState' = "done" /\ zReport' = BuildReport(zRecords', zErrors')
       ELSE UNCHANGED <<zState, zReport>>

\* analyzeZoneHealth(domain) is called: eight queries are started
StartAnalyzeZoneHealth ==
  /\ zState = "idle"
  /\ zState' = "fetching"
  /\ zPending' = RecordTypeSet
  /\ UNCHANGED <<zZone, zFailure, zRecords, zErrors, zFailed, zReport, notZone>>

\* the query for type t resolved with the resolver's answer
FetchAnswered(t) ==
  /\ zState = "fetching" /\ t \in zPending
  /\ zRecords' = StoreAnswer(zRecords, t, zZone[t])
  /\ UNCHANGED <<zZone, zFailure, zErrors, zFailed, notZone>>
  /\ CallbackDone(t)

\* the query for type t threw (non-2xx status, network error or timeout)
FetchFailed(t) ==
  /\ zState = "fetching" /\ t \in zPending
  /\ zErrors' = OnFetchError(zErrors, t, zFailure[t])
  /\ zFailed' = zFailed \cup {t}
  /\ UNCHANGED <<zZone, zFailure, zRecords, notZone>>
  /\ CallbackDone(t)

InitZone ==
  /\ IdleProp /\ IdleAn /\ IdleScore /\ IdleEnum /\ IdleBilling /\ IdleLimit /\ IdleFn
  /\ zState = "idle"
  /\ zZone \in SampleZones
  /\ zFailure \in SampleFailures
  /\ zPending = {}
  /\ zRecords = <<>>
  /\ zErrors = <<>>
  /\ zFailed = {}
  /\ zReport = NoValue

NextZone ==
  \/ StartAnalyzeZoneHealth
  \/ \E t \in RecordTypeSet : FetchAnswered(t)
  \/ \E t \in RecordTypeSet : FetchFailed(t)

SpecZone == InitZone /\ [][NextZone]_vars

IssuesWhere(issues, P(_)) == {k \in 1..Len(issues) : P(issues[k])}

\* C6: analyzeZoneHealth returns a report for every set F of record types
\* whose fetch fails, all eight included: the report has exactly |F| issues
\* of category General, all warnings, one per failed type; the records of
\* the types that succeeded are present; and the rule checks ran on them.
C6_FetchFailuresDegrade ==
  /\ (zState = "fetching") => zPending # {}
  /\ (zState = "done") =>
       LET IsGeneral(i) == i.category = "General"
           general == IssuesWhere(zReport.issues, IsGeneral)
       IN /\ zReport # NoValue
          /\ Cardinality(general) = Cardinality(zFailed)
          /\ \A k \in general : zReport.issues[k].severity = "warning"
          /\ \A t \in zFailed :
               Cardinality({k \in general :
                  StartsWith(zReport.issues[k].message,
                             "Failed to fetch " \o t \o " records: ")}) = 1
          /\ \A t \in RecordTypeSet \ zFailed :
               RecordsOf(zReport.records, t) = zZone[t]
          /\ Len(zReport.issues) > Cardinality(zFailed)
          /\ \A t \in {"A", "MX", "TXT"} \cap zFailed :
               \E k \in 1..Len(zReport.issues) :
                  /\ zReport.issues[k].category = t
                  /\ zReport.issues[k].severity = "info"
          /\ \A t \in {"SOA", "NS"} \cap zFailed :
               \E k \in 1..Len(zReport.issues) :
                  /\ zReport.issues[k].category = t
                  /\ zReport.issues[k].severity = "critical"

\* all eight fetches failed and the report was still returned
C6_Witness ==
  /\ zState = "done"
  /\ zFailed = RecordTypeSet
  /\ zReport # NoValue
  /\ zReport.grade = "F"

----------------------------------------------------------------------------
(* Subdomain discovery: subdomainEnum.ts *)

COMMON_SUBDOMAINS ==
  <<"www", "mail", "webmail", "ftp", "smtp", "pop", "imap",
    "admin", "portal", "api", "dev", "staging", "test", "demo",
    "blog", "shop", "store", "cdn", "static", "assets", "images",
    "app", "mobile", "m", "vpn", "remote", "secure", "login",
    "auth", "sso", "id", "accounts", "support", "help", "docs",
    "ns1", "ns2", "dns", "dns1", "dns2", "mx", "mx1", "mx2",
    "cpanel", "whm", "plesk", "server", "host", "cloud",
    "status", "monitor", "metrics", "analytics", "tracking",
    "git", "gitlab", "github", "bitbucket", "jenkins", "ci",
    "db", "database", "mysql", "postgres", "redis", "mongo",
    "backup", "bak", "old", "new", "beta", "alpha", "stage",
    "internal", "intranet", "extranet", "private", "public">>

CT_SOURCE == "Certificate Transparency"
WORDLIST_SOURCE == "Common Subdomain List"

\* the domain argument of enumerateSubdomains
QueriedDomain == "example.com"

\* String.prototype.endsWith
EndsWith(s, suffix) ==
  Len(s) >= Len(suffix) /\ SubSeq(s, Len(s) - Len(suffix) + 1, Len(s)) = suffix

\* String.prototype.trim
IsSpace(c) == c = " " \/ c = "\n" \/ c = "\t" \/ c = "\r"
Trim(s) ==
  LET solid == {i \in 1..Len(s) : ~IsSpace(CharAt(s, i))}
  IN IF solid = {} THEN ""
     ELSE SubSeq(s, CHOOSE i \in solid : \A j \in solid : i <= j,
                    CHOOSE i \in solid : \A j \in solid : i >= j)

\* String.prototype.replace(pattern, replacement) for a string pattern: the
\* first occurrence only
ReplaceFirst(s, pattern, replacement) ==
  LET hits == {i \in 1..(Len(s) - Len(pattern) + 1) :
                 SubSeq(s, i, i + Len(pattern) - 1) = pattern}
  IN IF hits = {} THEN s
     ELSE LET i == CHOOSE h \in hits : \A g \in hits : h <= g
          IN SubSeq(s, 1, i - 1) \o replacement \o SubSeq(s, i + Len(pattern), Len(s))

\* a.localeCompare(b) < 0 for lower-case host labels: the collation puts
\* punctuation before digits before letters; a character is smaller when it
\* stands earlier in this string
LOCALE_ORDER == "_-.@*0123456789abcdefghijklmnopqrstuvwxyz"
LocaleRank(c) == CHOOSE i \in 1..Len(LOCALE_ORDER) : CharAt(LOCALE_ORDER, i) = c
LocaleLess(a, b) ==
  \E i \in 1..(Min(Len(a), Len(b)) + 1) :
    /\ SubSeq(a, 1, i - 1) = SubSeq(b, 1, i - 1)
    /\ \/ i > Len(a) /\ i <= Len(b)
       \/ /\ i <= Len(a) /\ i <= Len(b)
          /\ LocaleRank(CharAt(a, i)) < LocaleRank(CharAt(b, i))

\* subdomains.sort((a, b) => a.subdomain.localeCompare(b.subdomain)): a
\* stable sort, each entry goes behind the entries that are not greater
InsertByLabel(sorted, x) ==
  LET n == Cardinality({k \in 1..Len(sorted) : ~LocaleLess(x.subdomain, sorted[k].subdomain)})
  IN SubSeq(sorted, 1, n) \o <<x>> \o SubSeq(sorted, n + 1, Len(sorted))
SortBySubdomain(entries) ==
  LET S[i \in 0..Len(entries)] ==
        IF i = 0 THEN <<>> ELSE InsertByLabel(S[i - 1], entries[i])
  IN S[Len(entries)]

\* queryCertificateTransparency: the filter on one cleaned certificate name
KeepName(cleanName, domain) ==
  \/ /\ cleanName # ""
     /\ ~StartsWith(cleanName, "*")
     /\ EndsWith(cleanName, "." \o domain)
     /\ cleanName # domain
  \/ cleanName = domain

\* queryCertificateTransparency: from the parsed crt.sh body to the list of
\* distinct names, in order of first occurrence
ExtractSubdomains(data, domain) ==
  LET names == Flat([k \in 1..Len(data) |-> SplitChar(data[k].name_value, "\n")])
      clean == [k \in 1..Len(names) |-> ToLowerCase(Trim(names[k]))]
      Kept(n) == KeepName(n, domain)
  IN Unique(Filter(clean, Kept))

\* checkSubdomainResolution: the try branch, from the DoH answer section
checkSubdomainResolution(answer) ==
  LET IsA(r) == r.typeName = "A"
      ips == DataOf(Filter(answer, IsA))
  IN [resolves |-> Len(ips) > 0, ipAddresses |-> ips]
\* checkSubdomainResolution: the catch branch
NoResolution == [resolves |-> FALSE, ipAddresses |-> <<>>]

\* checkSSLCertificate: the error codes that still count as TLS present
CERT_ERROR_CODES ==
  {"UNABLE_TO_VERIFY_LEAF_SIGNATURE", "CERT_HAS_EXPIRED", "ERR_TLS_CERT_ALTNAME_INVALID"}
\* how the HEAD request of checkSSLCertificate can end: with a response or
\* with an error carrying this code
SslOutcomes ==
  {"response"} \cup CERT_ERROR_CODES \cup {"ECONNREFUSED", "DEPTH_ZERO_SELF_SIGNED_CERT"}
\* checkSSLCertificate; details is the shape of the returned details object
checkSSLCertificate(outcome) ==
  IF outcome = "response" THEN [hasSSL |-> TRUE, details |-> "{}"]
  ELSE IF outcome \in CERT_ERROR_CODES
    THEN [hasSSL |-> TRUE,
          details |-> IF outcome = "CERT_HAS_EXPIRED" THEN "{expired:true}"
                      ELSE "{expired:false}"]
  ELSE [hasSSL |-> FALSE, details |-> "undefined"]

\* checkSSLCertificate when the 5000 ms timer fired first: controller.abort()
\* rejects the fetch with an AbortError
SSL_ABORTED == "ABORT_ERR"

\* the outbound calls of one enumerateSubdomains run
CT_FETCH == <<"crt.sh", 0>>
CtCall(i) == <<"ct", i>>
WlCall(j) == <<"wl", j>>

\* seenDomains.has(name)
AlreadySeen_never(seen, name) == FALSE
AlreadySeen(seen, name) == name \in seen

\* the SubdomainResult a certificate-transparency name starts as
NewCTResult(sub, domain) ==
  [subdomain |-> IF sub = domain THEN "@" ELSE ReplaceFirst(sub, "." \o domain, ""),
   fullDomain |-> sub, source |-> CT_SOURCE, hasSSL |-> FALSE, sslDetails |-> "undefined",
   resolves |-> FALSE, ipAddresses |-> <<>>]
\* the SubdomainResult of a wordlist name that resolved
NewWordlistResult(sub, domain, ips) ==
  [subdomain |-> sub, fullDomain |-> sub \o "." \o domain, source |-> WORDLIST_SOURCE,
   hasSSL |-> FALSE, sslDetails |-> "undefined", resolves |-> TRUE, ipAddresses |-> ips]

\* the locals of the running enumerateSubdomains call
Frame ==
  [state |-> eState, ctIdx |-> ctIdx, ctProbe |-> ctProbe, cur |-> eCur,
   subdomains |-> subdomains, seen |-> seenDomains, ctCount |-> ctCount,
   commonCount |-> commonCount, wl |-> wlProbes, timers |-> eTimers,
   result |-> eResult]
Resume(f) ==
  /\ eState' = f.state /\ ctIdx' = f.ctIdx /\ ctProbe' = f.ctProbe /\ eCur' = f.cur
  /\ subdomains' = f.subdomains /\ seenDomains' = f.seen /\ ctCount' = f.ctCount
  /\ commonCount' = f.commonCount /\ wlProbes' = f.wl /\ eTimers' = f.timers
  /\ eResult' = f.result

\* the sort and the return statement
Finish(f) ==
  [f EXCEPT !.state = "done",
            !.result = [totalFound |-> Len(f.subdomains),
                        subdomains |-> SortBySubdomain(f.subdomains),
                        sources |-> [certificateTransparency |-> f.ctCount,
                                     commonSubdomains |-> f.commonCount]]]

\* Promise.all of the wordlist phase resolves once every callback is done
SettleWordlist(f) ==
  IF \A j \in 1..Len(f.wl) : f.wl[j].stage = "done" THEN Finish(f) ELSE f

\* COMMON_SUBDOMAINS.slice(0, room), room > 0
WordlistSlice_oneMore(room) ==
  SubSeq(COMMON_SUBDOMAINS, 1, Min(Len(COMMON_SUBDOMAINS), room + 1))
WordlistSlice(room) ==
  SubSeq(COMMON_SUBDOMAINS, 1, Min(Len(COMMON_SUBDOMAINS), room))

EnterWordlist_inTurn(f, opts) ==
  IF opts.includeCommon /\ Len(f.subdomains) < opts.maxResults
    THEN
      LET slice == WordlistSlice(opts.maxResults - Len(f.subdomains))
      IN [f EXCEPT !.state = "wordlist",
                   !.wl = [j \in 1..Len(slice) |->
                             [sub |-> slice[j],
                              stage |-> IF j = 1 THEN "dnsHeaders" ELSE "waiting",
                              ipAddresses |-> <<>>]],
                   !.seen = f.seen \cup {slice[1] \o "." \o QueriedDomain},
                   !.timers = {WlCall(1)}]
    ELSE Finish(f)
\* phase 2: every callback of the slice runs up to its first await
EnterWordlist(f, opts) ==
  IF opts.includeCommon /\ Len(f.subdomains) < opts.maxResults
    THEN
      LET slice == WordlistSlice(opts.maxResults - Len(f.subdomains))
          full(j) == slice[j] \o "." \o QueriedDomain
          seenAt(j) == f.seen \cup {full(k) : k \in 1..(j - 1)}
          started == {j \in 1..Len(slice) : ~AlreadySeen(seenAt(j), full(j))}
      IN SettleWordlist(
           [f EXCEPT !.state = "wordlist",
                     !.wl = [j \in 1..Len(slice) |->
                               [sub |-> slice[j],
                                stage |-> IF j \in started THEN "dnsHeaders" ELSE "done",
                                ipAddresses |-> <<>>]],
                     !.seen = f.seen \cup {full(j) : j \in started},
                     !.timers = {WlCall(j) : j \in started}])
    ELSE Finish(f)

\* phase 1: the for loop over ctSubdomains, run from candidate f.ctIdx up to
\* the next await, and on into phase 2 when the list is exhausted
RECURSIVE RunCTLoop(_, _, _)
\* the candidate's result is complete: push it and go on with the next one
PushCT(f, names, opts) ==
  RunCTLoop([f EXCEPT !.subdomains = Append(@, f.cur), !.ctCount = @ + 1,
                      !.ctIdx = @ + 1, !.ctProbe = "none", !.cur = NoValue],
            names, opts)
\* after the resolution step: the TLS probe only if asked for and resolving
AfterCTResolution_always(f, names, opts) ==
  [f EXCEPT !.state = "ctLoop", !.ctProbe = "ssl", !.timers = @ \cup {CtCall(f.ctIdx)}]
AfterCTResolution(f, names, opts) ==
  IF opts.checkSSL /\ f.cur.resolves
    THEN [f EXCEPT !.state = "ctLoop", !.ctProbe = "ssl",
                   !.timers = @ \cup {CtCall(f.ctIdx)}]
    ELSE PushCT(f, names, opts)
RunCTLoop(f, names, opts) ==
  IF f.ctIdx > Len(names) THEN EnterWordlist([f EXCEPT !.ctProbe = "none"], opts)
  ELSE
    LET sub == names[f.ctIdx]
    IN IF AlreadySeen(f.seen, sub) \/ Len(f.subdomains) >= opts.maxResults
         THEN RunCTLoop([f EXCEPT !.ctIdx = @ + 1], names, opts)
         ELSE
           LET g == [f EXCEPT !.seen = @ \cup {sub}, !.cur = NewCTResult(sub, QueriedDomain)]
           IN IF opts.checkResolution
                THEN [g EXCEPT !.state = "ctLoop", !.ctProbe = "dnsHeaders",
                               !.timers = @ \cup {CtCall(f.ctIdx)}]
                ELSE AfterCTResolution(g, names, opts)

\* the resolution of the current certificate-transparency candidate arrived
CTResolved(resolution) ==
  Resume(AfterCTResolution(
    [Frame EXCEPT !.cur = [@ EXCEPT !.resolves = resolution.resolves,
                                    !.ipAddresses = resolution.ipAddresses],
                  !.timers = @ \ {CtCall(ctIdx)}],
    ctSubdomains, eOpts))
\* the TLS probe of the current certificate-transparency candidate ended
CTProbed(ssl) ==
  Resume(PushCT(
    [Frame EXCEPT !.cur = [@ EXCEPT !.hasSSL = ssl.hasSSL, !.sslDetails = ssl.details],
                  !.timers = @ \ {CtCall(ctIdx)}],
    ctSubdomains, eOpts))

\* the resolution of wordlist name j arrived
WordlistResolved_keepAll(j, resolution) ==
  LET f == [Frame EXCEPT !.timers = @ \ {WlCall(j)}]
  IN IF eOpts.checkSSL /\ resolution.resolves
       THEN Resume([f EXCEPT !.wl[j].stage = "ssl",
                             !.wl[j].ipAddresses = resolution.ipAddresses,
                             !.timers = @ \cup {WlCall(j)}])
     ELSE Resume(SettleWordlist(
            [f EXCEPT !.wl[j].stage = "done",
                      !.subdomains =
                        Append(@, [NewWordlistResult(f.wl[j].sub, QueriedDomain,
                                                     resolution.ipAddresses)
                                     EXCEPT !.resolves = resolution.resolves]),
                      !.commonCount = @ + 1]))
WordlistResolved(j, resolution) ==
  LET f == [Frame EXCEPT !.timers = @ \ {WlCall(j)}]
  IN IF ~resolution.resolves
       THEN Resume(SettleWordlist([f EXCEPT !.wl[j].stage = "done"]))
     ELSE IF eOpts.checkSSL
       THEN Resume([f EXCEPT !.wl[j].stage = "ssl",
                             !.wl[j].ipAddresses = resolution.ipAddresses,
                             !.timers = @ \cup {WlCall(j)}])
     ELSE Resume(SettleWordlist(
            [f EXCEPT !.wl[j].stage = "done",
                      !.subdomains = Append(@, NewWordlistResult(f.wl[j].sub, QueriedDomain,
                                                                 resolution.ipAddresses)),
                      !.commonCount = @ + 1]))
\* the TLS probe of wordlist name j ended
WordlistProbed(j, ssl) ==
  LET f == [Frame EXCEPT !.timers = @ \ {WlCall(j)}]
      result == [NewWordlistResult(f.wl[j].sub, QueriedDomain, f.wl[j].ipAddresses)
                   EXCEPT !.hasSSL = ssl.hasSSL, !.sslDetails = ssl.details]
  IN Resume(SettleWordlist(
       [f EXCEPT !.wl[j].stage = "done", !.wl[j].ipAddresses = <<>>,
                 !.subdomains = Append(@, result),
                 !.commonCount = @ + 1]))

\* what crt.sh can answer: certificates whose name_value holds one or more
\* names separated by newlines
SampleCerts ==
  {[name_value |-> "www.example.com\n*.example.com"],
   [name_value |-> "example.com\n3d.example.com"],
   [name_value |-> " Dev-1.Example.COM "],
   [name_value |-> "mail.example.com\nwww.example.com"],
   [name_value |-> "www.example.org"]}
SampleCTBodies == UNION {[1..n -> SampleCerts] : n \in 0..MaxCerts}

\* the answer sections the resolver can give for a candidate
SampleEnumAnswers ==
  {<<>>, <<ARecord(IP1)>>, <<[typeName |-> "CNAME", data |-> "edge.example.net."]>>}

\* enumerateSubdomains(domain, options) is called: the crt.sh request goes out
StartEnumerate ==
  /\ eState = "idle"
  /\ eState' = "ct"
  /\ ctCall' = "headers"
  /\ UNCHANGED <<eOpts, ctSubdomains, ctIdx, ctProbe, eCur, subdomains, seenDomains,
                 ctCount, commonCount, wlProbes, eTimers, eResult, notEnum>>

\* queryCertificateTransparency returned names; the loop starts at once
CTSettles(names, outcome) ==
  /\ ctCall' = outcome
  /\ ctSubdomains' = names
  /\ Resume(RunCTLoop([Frame EXCEPT !.ctIdx = 1], names, eOpts))
  /\ UNCHANGED <<eOpts, notEnum>>
CTReturns(names) == CTSettles(names, "settled")
\* the query failed: the names collected so far, none, are returned
CTFails_rethrow ==
  /\ ctCall' = "failed"
  /\ eState' = "rejected"
  /\ UNCHANGED <<eOpts, ctSubdomains, ctIdx, ctProbe, eCur, subdomains, seenDomains,
                 ctCount, commonCount, wlProbes, eTimers, eResult, notEnum>>
CTFails == CTSettles(<<>>, "failed")

\* the crt.sh fetch rejected: caught, logged, empty list
CTNetworkError == eState = "ct" /\ ctCall = "headers" /\ CTFails
\* crt.sh answered with a non-2xx status: empty list
CTHeadersNotOk == eState = "ct" /\ ctCall = "headers" /\ CTFails
\* crt.sh answered 2xx: the body is read next
CTHeadersOk ==
  /\ eState = "ct" /\ ctCall = "headers"
  /\ ctCall' = "body"
  /\ UNCHANGED <<eState, eOpts, ctSubdomains, ctIdx, ctProbe, eCur, subdomains,
                 seenDomains, ctCount, commonCount, wlProbes, eTimers, eResult, notEnum>>
\* the body arrived and parsed
CTBodyParsed ==
  /\ eState = "ct" /\ ctCall = "body"
  /\ \E data \in SampleCTBodies : CTReturns(ExtractSubdomains(data, QueriedDomain))
\* the body was not JSON: caught, empty list
CTBodyInvalid == eState = "ct" /\ ctCall = "body" /\ CTFails

\* the DoH query of the current candidate: status line and headers arrived
\* with 2xx, the abort timer is cleared and the body is read
CtDnsHeadersOk ==
  /\ eState = "ctLoop" /\ ctProbe = "dnsHeaders"
  /\ ctProbe' = "dnsBody"
  /\ eTimers' = eTimers \ {CtCall(ctIdx)}
  /\ UNCHANGED <<eState, eOpts, ctCall, ctSubdomains, ctIdx, eCur, subdomains,
                 seenDomains, ctCount, commonCount, wlProbes, eResult, notEnum>>
\* it failed (network error or non-2xx status)
CtDnsFailed ==
  /\ eState = "ctLoop" /\ ctProbe = "dnsHeaders"
  /\ CTResolved(NoResolution)
  /\ UNCHANGED <<eOpts, ctCall, ctSubdomains, notEnum>>
\* its 3000 ms timer fired before the headers arrived
CtDnsTimeout ==
  /\ eState = "ctLoop" /\ ctProbe = "dnsHeaders" /\ CtCall(ctIdx) \in eTimers
  /\ CTResolved(NoResolution)
  /\ UNCHANGED <<eOpts, ctCall, ctSubdomains, notEnum>>
\* its body arrived and parsed
CtDnsBodyParsed ==
  /\ eState = "ctLoop" /\ ctProbe = "dnsBody"
  /\ \E answer \in SampleEnumAnswers : CTResolved(checkSubdomainResolution(answer))
  /\ UNCHANGED <<eOpts, ctCall, ctSubdomains, notEnum>>
\* its body was not JSON
CtDnsBodyInvalid ==
  /\ eState = "ctLoop" /\ ctProbe = "dnsBody"
  /\ CTResolved(NoResolution)
  /\ UNCHANGED <<eOpts, ctCall, ctSubdomains, notEnum>>
\* the TLS probe of the current candidate ended with a response or an error
CtSslSettled ==
  /\ eState = "ctLoop" /\ ctProbe = "ssl"
  /\ \E outcome \in SslOutcomes : CTProbed(checkSSLCertificate(outcome))
  /\ UNCHANGED <<eOpts, ctCall, ctSubdomains, notEnum>>
\* its 5000 ms timer fired: the request is aborted
CtSslTimeout ==
  /\ eState = "ctLoop" /\ ctProbe = "ssl" /\ CtCall(ctIdx) \in eTimers
  /\ CTProbed(checkSSLCertificate(SSL_ABORTED))
  /\ UNCHANGED <<eOpts, ctCall, ctSubdomains, notEnum>>

\* the same events for the concurrent probe of wordlist name j
WlAt(j, stage) == eState = "wordlist" /\ j \in 1..Len(wlProbes) /\ wlProbes[j].stage = stage
WlDnsHeadersOk(j) ==
  /\ WlAt(j, "dnsHeaders")
  /\ wlProbes' = [wlProbes EXCEPT ![j].stage = "dnsBody"]
  /\ eTimers' = eTimers \ {WlCall(j)}
  /\ UNCHANGED <<eState, eOpts, ctCall, ctSubdomains, ctIdx, ctProbe, eCur, subdomains,
                 seenDomains, ctCount, commonCount, eResult, notEnum>>
WlDnsFailed(j) ==
  /\ WlAt(j, "dnsHeaders")
  /\ WordlistResolved(j, NoResolution)
  /\ UNCHANGED <<eOpts, ctCall, ctSubdomains, notEnum>>
WlDnsTimeout(j) ==
  /\ WlAt(j, "dnsHeaders") /\ WlCall(j) \in eTimers
  /\ WordlistResolved(j, NoResolution)
  /\ UNCHANGED <<eOpts, ctCall, ctSubdomains, notEnum>>
WlDnsBodyParsed(j) ==
  /\ WlAt(j, "dnsBody")
  /\ \E answer \in SampleEnumAnswers : WordlistResolved(j, checkSubdomainResolution(answer))
  /\ UNCHANGED <<eOpts, ctCall, ctSubdomains, notEnum>>
WlDnsBodyInvalid(j) ==
  /\ WlAt(j, "dnsBody")
  /\ WordlistResolved(j, NoResolution)
  /\ UNCHANGED <<eOpts, ctCall, ctSubdomains, notEnum>>
WlSslSettled(j) ==
  /\ WlAt(j, "ssl")
  /\ \E outcome \in SslOutcomes : WordlistProbed(j, checkSSLCertificate(outcome))
  /\ UNCHANGED <<eOpts, ctCall, ctSubdomains, notEnum>>
WlSslTimeout(j) ==
  /\ WlAt(j, "ssl") /\ WlCall(j) \in eTimers
  /\ WordlistProbed(j, checkSSLCertificate(SSL_ABORTED))
  /\ UNCHANGED <<eOpts, ctCall, ctSubdomains, notEnum>>

SampleOptions ==
  [checkSSL : BOOLEAN, checkResolution : BOOLEAN, includeCommon : BOOLEAN,
   maxResults : 0..MaxResultsOption]

InitEnum ==
  /\ IdleProp /\ IdleAn /\ IdleScore /\ IdleZone /\ IdleBilling /\ IdleLimit /\ IdleFn
  /\ eState = "idle"
  /\ eOpts \in SampleOptions
  /\ ctCall = "none"
  /\ ctSubdomains = <<>>
  /\ ctIdx = 0
  /\ ctProbe = "none"
  /\ eCur = NoValue
  /\ subdomains = <<>>
  /\ seenDomains = {}
  /\ ctCount = 0
  /\ commonCount = 0
  /\ wlProbes = <<>>
  /\ eTimers = {}
  /\ eResult = NoValue

WordlistSlots == 1..MaxResultsOption

NextEnum ==
  \/ StartEnumerate
  \/ CTNetworkError
  \/ CTHeadersNotOk
  \/ CTHeadersOk
  \/ CTBodyParsed
  \/ CTBodyInvalid
  \/ CtDnsHeadersOk
  \/ CtDnsFailed
  \/ CtDnsTimeout
  \/ CtDnsBodyParsed
  \/ CtDnsBodyInvalid
  \/ CtSslSettled
  \/ CtSslTimeout
  \/ \E j \in WordlistSlots : WlDnsHeadersOk(j)
  \/ \E j \in WordlistSlots : WlDnsFailed(j)
  \/ \E j \in WordlistSlots : WlDnsTimeout(j)
  \/ \E j \in WordlistSlots : WlDnsBodyParsed(j)
  \/ \E j \in WordlistSlots : WlDnsBodyInvalid(j)
  \/ \E j \in WordlistSlots : WlSslSettled(j)
  \/ \E j \in WordlistSlots : WlSslTimeout(j)

SpecEnum == InitEnum /\ [][NextEnum]_vars

\* the full names the wordlist phase generated in this run
WordlistGenerated == {wlProbes[j].sub \o "." \o QueriedDomain : j \in 1..Len(wlProbes)}
EntriesFor(name) ==
  {k \in 1..Len(eResult.subdomains) : eResult.subdomains[k].fullDomain = name}

\* C8: in the returned result no two entries have the same fullDomain, and
\* a name that is both in the certificate-transparency list and generated
\* from the wordlist appears exactly once, with source "Certificate
\* Transparency", whatever the completion order of the wordlist probes.
C8_NoDuplicateNames ==
  eState = "done" =>
    /\ \A k, l \in 1..Len(eResult.subdomains) :
         eResult.subdomains[k].fullDomain = eResult.subdomains[l].fullDomain => k = l
    /\ \A name \in SeqToSet(ctSubdomains) \cap WordlistGenerated :
         /\ Cardinality(EntriesFor(name)) = 1
         /\ \A k \in EntriesFor(name) : eResult.subdomains[k].source = CT_SOURCE

\* a run returned in which the wordlist generated a name that certificate
\* transparency had already delivered, next to a wordlist entry of its own
C8_Witness ==
  /\ eState = "done"
  /\ SeqToSet(ctSubdomains) \cap WordlistGenerated # {}
  /\ \E k \in 1..Len(eResult.subdomains) : eResult.subdomains[k].source = WORDLIST_SOURCE

\* the outbound calls that are waiting on the network
InFlight ==
  (IF ctCall \in {"headers", "body"} THEN {CT_FETCH} ELSE {})
  \cup (IF ctProbe # "none" THEN {CtCall(ctIdx)} ELSE {})
  \cup {WlCall(j) : j \in {i \in 1..Len(wlProbes) : wlProbes[i].stage # "done"}}

\* C9: every outbound call of enumerateSubdomains that is waiting on the
\* network has an armed abort timer, so that an endpoint that never
\* responds cannot keep the call from returning.
C9_OutboundCallsBounded == \A c \in InFlight : c \in eTimers

----------------------------------------------------------------------------
(* Referral credit on the Stripe webhooks: billing.ts, Subscription.ts,    *)
(* Referral.ts.  Subscription periods are taken as not yet ended.          *)

UserIds == 1..NumUsers
Plans == {"monthly", "quarterly"}
MAX_REFERRAL_CREDITS == 4

\* the rows of the three tables, each table in insertion order
SubscriptionRow(userId, stripeId, plan, status) ==
  [user_id |-> userId, stripe_subscription_id |-> stripeId, plan |-> plan,
   status |-> status, cancel_at_period_end |-> 0]
ReferralRow(referrerId, referredId) ==
  [referrer_id |-> referrerId, referred_id |-> referredId, converted_at |-> 0,
   credit_given |-> 0]
CreditRow(userId, months, reason, sourceUserId) ==
  [user_id |-> userId, months |-> months, reason |-> reason,
   source_user_id |-> sourceUserId, applied |-> 0]

\* the database as one value; clock stands for CURRENT_TIMESTAMP
Database ==
  [subscriptions |-> bSubs, referrals |-> bReferrals, credits |-> bCredits,
   clock |-> bClock]
Commit(db) ==
  /\ bSubs' = db.subscriptions
  /\ bReferrals' = db.referrals
  /\ bCredits' = db.credits
  /\ bClock' = db.clock

\* the rows of a table that satisfy a WHERE clause, as indices
FirstOf(S) == CHOOSE i \in S : \A j \in S : i <= j
LastOf(S) == CHOOSE i \in S : \A j \in S : i >= j

\* SubscriptionModel.createTrial (NULL stripe id is 0)
createTrial(db, userId) ==
  [db EXCEPT !.subscriptions = Append(@, SubscriptionRow(userId, 0, "trial", "active"))]

\* SubscriptionModel.create: cancel the user's live rows, insert an active one
create(db, userId, plan, stripeSubscriptionId) ==
  LET cancelled ==
        [k \in 1..Len(db.subscriptions) |->
           IF db.subscriptions[k].user_id = userId
              /\ db.subscriptions[k].status \in {"active", "past_due"}
             THEN [db.subscriptions[k] EXCEPT !.status = "cancelled"]
             ELSE db.subscriptions[k]]
  IN [db EXCEPT !.subscriptions =
        Append(cancelled, SubscriptionRow(userId, stripeSubscriptionId, plan, "active"))]

\* SubscriptionModel.findByStripeId: the index of the row, 0 for null
findByStripeId(db, stripeSubscriptionId) ==
  LET rows == {k \in 1..Len(db.subscriptions) :
                 db.subscriptions[k].stripe_subscription_id = stripeSubscriptionId}
  IN IF rows = {} THEN 0 ELSE FirstOf(rows)

\* SubscriptionModel.getActive: the newest live row of the user, 0 for null
getActive(db, userId) ==
  LET rows == {k \in 1..Len(db.subscriptions) :
                 /\ db.subscriptions[k].user_id = userId
                 /\ db.subscriptions[k].status \in {"active", "past_due"}}
  IN IF rows = {} THEN 0 ELSE LastOf(rows)

\* SubscriptionModel.updateStatus, cancelAtPeriodEnd
updateStatus(db, row, status) == [db EXCEPT !.subscriptions[row].status = status]
cancelAtPeriodEnd(db, row) == [db EXCEPT !.subscriptions[row].cancel_at_period_end = 1]

\* SubscriptionModel.hasEverPaid
hasEverPaid(db, userId) ==
  \E k \in 1..Len(db.subscriptions) :
    db.subscriptions[k].user_id = userId /\ db.subscriptions[k].plan # "trial"

\* SubscriptionModel.getTotalReferralCredits: SUM(months)
RECURSIVE SumMonths(_, _)
SumMonths(credits, rows) ==
  IF rows = {} THEN 0
  ELSE LET k == FirstOf(rows) IN credits[k].months + SumMonths(credits, rows \ {k})
getTotalReferralCredits(db, userId) ==
  SumMonths(db.credits, {k \in 1..Len(db.credits) :
                           db.credits[k].user_id = userId /\ db.credits[k].reason = "referral"})
canReceiveReferralCredit_upTo(db, userId) ==
  getTotalReferralCredits(db, userId) <= MAX_REFERRAL_CREDITS
canReceiveReferralCredit(db, userId) ==
  getTotalReferralCredits(db, userId) < MAX_REFERRAL_CREDITS

\* SubscriptionModel.addCredit
addCredit(db, userId, months, reason, sourceUserId) ==
  [db EXCEPT !.credits = Append(@, CreditRow(userId, months, reason, sourceUserId))]

\* ReferralModel.trackSignup
trackSignup(db, referrerId, referredId) ==
  [db EXCEPT !.referrals = Append(@, ReferralRow(referrerId, referredId))]

\* ReferralModel.wasReferred: the index of the row, 0 for null
wasReferred(db, userId) ==
  LET rows == {k \in 1..Len(db.referrals) : db.referrals[k].referred_id = userId}
  IN IF rows = {} THEN 0 ELSE FirstOf(rows)

\* ReferralModel.trackConversion
trackConversion(db, referredId) ==
  LET rows == {k \in 1..Len(db.referrals) :
                 db.referrals[k].referred_id = referredId /\ db.referrals[k].converted_at = 0}
  IN IF rows = {} THEN db
     ELSE [db EXCEPT !.referrals[FirstOf(rows)].converted_at = db.clock + 1,
                     !.clock = @ + 1]

\* UPDATE referral_conversions SET credit_given = 1
MarkCreditGiven(db, row) == [db EXCEPT !.referrals[row].credit_given = 1]

giveCredit_again(db, referredId) ==
  LET rows == {k \in 1..Len(db.referrals) :
                 /\ db.referrals[k].referred_id = referredId
                 /\ db.referrals[k].converted_at # 0}
  IN IF rows = {} THEN db
     ELSE
       LET row == FirstOf(rows)
           referral == db.referrals[row]
           referrerSubscription == getActive(db, referral.referrer_id)
       IN IF referrerSubscription = 0 THEN db
          ELSE IF db.subscriptions[referrerSubscription].plan = "trial" THEN db
          ELSE IF ~canReceiveReferralCredit(db, referral.referrer_id)
            THEN MarkCreditGiven(db, row)
          ELSE MarkCreditGiven(
                 addCredit(db, referral.referrer_id, 1, "referral", referral.referred_id),
                 row)

\* ReferralModel.giveCredit
giveCredit(db, referredId) ==
  LET rows == {k \in 1..Len(db.referrals) :
                 /\ db.referrals[k].referred_id = referredId
                 /\ db.referrals[k].converted_at # 0
                 /\ db.referrals[k].credit_given = 0}
  IN IF rows = {} THEN db
     ELSE
       LET row == FirstOf(rows)
           referral == db.referrals[row]
           referrerSubscription == getActive(db, referral.referrer_id)
       IN IF referrerSubscription = 0 THEN db
          ELSE IF db.subscriptions[referrerSubscription].plan = "trial" THEN db
          ELSE IF ~canReceiveReferralCredit(db, referral.referrer_id)
            THEN MarkCreditGiven(db, row)
          ELSE MarkCreditGiven(
                 addCredit(db, referral.referrer_id, 1, "referral", referral.referred_id),
                 row)

\* ReferralModel.getPendingCredits: the rows in order of converted_at
getPendingCredits(db, referrerId) ==
  LET rows == {k \in 1..Len(db.referrals) :
                 /\ db.referrals[k].referrer_id = referrerId
                 /\ db.referrals[k].converted_at # 0
                 /\ db.referrals[k].credit_given = 0}
      Earlier(k) == {l \in rows : db.referrals[l].converted_at < db.referrals[k].converted_at}
  IN [n \in 1..Cardinality(rows) |->
        CHOOSE k \in rows : Cardinality(Earlier(k)) = n - 1]

\* ReferralModel.processAllPendingCredits: the loop over the pending rows
RECURSIVE ProcessPending(_, _, _)
ProcessPending(db, referrerId, pending) ==
  IF pending = <<>> THEN db
  ELSE
    LET row == Head(pending)
        next == IF ~canReceiveReferralCredit(db, referrerId)
                  THEN MarkCreditGiven(db, row)
                  ELSE MarkCreditGiven(
                         addCredit(db, db.referrals[row].referrer_id, 1, "referral",
                                   db.referrals[row].referred_id),
                         row)
    IN ProcessPending(next, referrerId, Tail(pending))
processAllPendingCredits(db, referrerId) ==
  ProcessPending(db, referrerId, getPendingCredits(db, referrerId))

\* handleCheckoutComplete(session)
handleCheckoutComplete(db, session) ==
  IF session.user_id \notin bUsers THEN db
  ELSE IF ~hasEverPaid(db, session.user_id) /\ wasReferred(db, session.user_id) # 0
    THEN giveCredit(trackConversion(db, session.user_id), session.user_id)
  ELSE db

\* handleSubscriptionUpdate: the local status for a Stripe status
LocalStatus(stripeStatus) ==
  IF stripeStatus = "unpaid" THEN "expired"
  ELSE IF stripeStatus = "canceled" THEN "cancelled"
  ELSE IF stripeStatus = "past_due" THEN "past_due"
  ELSE "active"

\* handleSubscriptionUpdate(subscription)
handleSubscriptionUpdate(db, subscription) ==
  LET internalPlan == IF StartsWith(subscription.plan, "quarterly") THEN "quarterly"
                      ELSE "monthly"
      existing == findByStripeId(db, subscription.id)
  IN IF existing # 0
       THEN LET updated == updateStatus(db, existing, LocalStatus(subscription.status))
            IN IF subscription.cancel_at_period_end
                 THEN cancelAtPeriodEnd(updated, existing) ELSE updated
       ELSE processAllPendingCredits(
              create(db, subscription.user_id, internalPlan, subscription.id),
              subscription.user_id)

\* the two events Stripe sends for a completed checkout of a subscription
CheckoutEvent(userId, plan, stripeId) ==
  [type |-> "checkout.session.completed", user_id |-> userId, plan |-> plan,
   id |-> stripeId, status |-> "complete", cancel_at_period_end |-> FALSE]
SubscriptionEvent(userId, plan, stripeId) ==
  [type |-> "customer.subscription.created", user_id |-> userId, plan |-> plan,
   id |-> stripeId, status |-> "active", cancel_at_period_end |-> FALSE]

\* POST /register (and the OAuth signup): the user row, the trial, and the
\* referral row when the referral code named an existing user
Register(u, referredBy) ==
  /\ u \notin bUsers
  /\ referredBy \in bUsers \cup {0}
  /\ bUsers' = bUsers \cup {u}
  /\ Commit(IF referredBy # 0
              THEN trackSignup(createTrial(Database, u), referredBy, u)
              ELSE createTrial(Database, u))
  /\ UNCHANGED <<bInbox, bPurchases, notBilling>>

\* the user pays in Stripe Checkout: Stripe creates the subscription and
\* queues both webhooks, which it delivers in no guaranteed order
CompleteCheckout(u, plan) ==
  /\ u \in bUsers
  /\ Len(bPurchases) < MaxPurchases
  /\ LET stripeId == Len(bPurchases) + 1
     IN /\ bPurchases' = Append(bPurchases, [user_id |-> u, id |-> stripeId])
        /\ bInbox' = bInbox \cup {CheckoutEvent(u, plan, stripeId),
                                  SubscriptionEvent(u, plan, stripeId)}
  /\ UNCHANGED <<bUsers, bSubs, bReferrals, bCredits, bClock, notBilling>>

\* POST /webhook with a checkout.session.completed event
DeliverCheckoutCompleted(e) ==
  /\ e \in bInbox /\ e.type = "checkout.session.completed"
  /\ bInbox' = bInbox \ {e}
  /\ Commit(handleCheckoutComplete(Database, e))
  /\ UNCHANGED <<bUsers, bPurchases, notBilling>>

\* POST /webhook with a customer.subscription.created event
DeliverSubscriptionCreated(e) ==
  /\ e \in bInbox /\ e.type = "customer.subscription.created"
  /\ bInbox' = bInbox \ {e}
  /\ Commit(handleSubscriptionUpdate(Database, e))
  /\ UNCHANGED <<bUsers, bPurchases, notBilling>>

InitBilling ==
  /\ IdleProp /\ IdleAn /\ IdleScore /\ IdleZone /\ IdleEnum /\ IdleLimit /\ IdleFn
  /\ IdleBilling

NextBilling ==
  \/ \E u \in UserIds, r \in UserIds \cup {0} : Register(u, r)
  \/ \E u \in UserIds, plan \in Plans : CompleteCheckout(u, plan)
  \/ \E e \in bInbox : DeliverCheckoutCompleted(e)
  \/ \E e \in bInbox : DeliverSubscriptionCreated(e)

SpecBilling == InitBilling /\ [][NextBilling]_vars

\* the Stripe subscription of the user's first paid purchase, 0 if none
FirstPurchase(u) ==
  LET mine == {k \in 1..Len(bPurchases) : bPurchases[k].user_id = u}
  IN IF mine = {} THEN 0 ELSE bPurchases[FirstOf(mine)].id
\* both webhooks of the user's first paid purchase have been handled
FirstPurchaseHandled(u) ==
  /\ FirstPurchase(u) # 0
  /\ \A e \in bInbox : e.id # FirstPurchase(u)
\* the referrer is on an active paid plan and below the cap
ReferrerEligible(r) ==
  /\ getActive(Database, r) # 0
  /\ bSubs[getActive(Database, r)].plan # "trial"
  /\ canReceiveReferralCredit(Database, r)
CreditedFor(r, u) ==
  \E k \in 1..Len(bCredits) :
    /\ bCredits[k].user_id = r /\ bCredits[k].source_user_id = u
    /\ bCredits[k].reason = "referral" /\ bCredits[k].months = 1

\* C10: once both webhooks of a referred user's first paid purchase have
\* been handled, in whichever order they arrived, the referral is marked
\* converted, and the referrer, if on an active paid plan and below the cap,
\* holds one month of referral credit for that user.
C10_FirstPurchaseConverts ==
  \A k \in 1..Len(bReferrals) :
    FirstPurchaseHandled(bReferrals[k].referred_id) =>
      /\ bReferrals[k].converted_at # 0
      /\ ReferrerEligible(bReferrals[k].referrer_id) =>
           CreditedFor(bReferrals[k].referrer_id, bReferrals[k].referred_id)

----------------------------------------------------------------------------
(* The rateLimiter middleware: rateLimiter.ts, ApiKey.ts.  The SHA-256     *)
(* digests (fingerprint, key_hash) are taken as collision-free, so a       *)
(* digest is represented by the text it was computed from.                 *)

FREE_TIER_LIMIT == 3
\* 24 * 60 * 60 * 1000
LIMIT_WINDOW_MS == 86400000

CeilDiv(a, b) == (a + b - 1) \div b
\* map[name] || default
FieldOr(map, name, default) == IF name \in DOMAIN map THEN map[name] ELSE default

\* the api_keys table and the subscriptions the limiter reads
ApiKeyRow(id, userId, key, isActive) ==
  [id |-> id, user_id |-> userId, key_hash |-> key, is_active |-> isActive]
LimiterApiKeys ==
  << ApiKeyRow(1, 1, "di_alpha", 1),
     ApiKeyRow(2, 2, "di_bravo", 1),
     ApiKeyRow(3, 1, "di_retired", 0) >>
LimiterDb ==
  [subscriptions |-> << SubscriptionRow(1, 11, "monthly", "active"),
                        SubscriptionRow(2, 12, "monthly", "past_due") >>,
   referrals |-> <<>>, credits |-> <<>>, clock |-> 0]

\* SubscriptionModel.hasValidSubscription
hasValidSubscription(db, userId) ==
  LET row == getActive(db, userId)
  IN row # 0 /\ db.subscriptions[row].status = "active"

validate_revokedToo(keys, key) ==
  IF ~StartsWith(key, "di_") THEN 0
  ELSE LET rows == {k \in 1..Len(keys) : keys[k].key_hash = key}
       IN IF rows = {} THEN 0 ELSE FirstOf(rows)
\* ApiKeyModel.validate: the index of the active row with that hash, 0 for null
validate(keys, key) ==
  IF ~StartsWith(key, "di_") THEN 0
  ELSE LET rows == {k \in 1..Len(keys) :
                      keys[k].key_hash = key /\ keys[k].is_active = 1}
       IN IF rows = {} THEN 0 ELSE FirstOf(rows)

\* a request: its address, the headers and the query string it carries, and
\* the session user (0 where req.user is not set)
Request(ip, headers, query, user) ==
  [ip |-> ip, headers |-> headers, query |-> query, user |-> user]

generateFingerprint(req) ==
  "fp_" \o Join(<<req.ip, FieldOr(req.headers, "user-agent", ""),
                  FieldOr(req.headers, "accept-language", "")>>, "|")

\* extractApiKey: the key, "" for null
extractApiKey(req) ==
  LET authHeader == FieldOr(req.headers, "authorization", "")
      token == IF StartsWith(authHeader, "Bearer ")
                 THEN SubSeq(authHeader, 8, Len(authHeader)) ELSE ""
      queryKey == FieldOr(req.query, "apiKey", "")
      headerKey == FieldOr(req.headers, "x-api-key", "")
  IN IF StartsWith(token, "di_") THEN token
     ELSE IF StartsWith(queryKey, "di_") THEN queryKey
     ELSE IF StartsWith(headerKey, "di_") THEN headerKey
     ELSE ""

\* what the middleware did: the status (200 where it called next()), the
\* response headers it set, and the fields it set on req
Response(status, next, headers, reqFields) ==
  [status |-> status, next |-> next, headers |-> headers, req |-> reqFields]
Unlimited(userId) ==
  Response(200, TRUE,
           [limit |-> "unlimited", remaining |-> "unlimited"],
           [isPremium |-> TRUE, userId |-> userId])
Rejected(status) == Response(status, FALSE, <<>>, <<>>)
Admitted(remaining, resetAt) ==
  Response(200, TRUE,
           [limit |-> FREE_TIER_LIMIT, remaining |-> remaining,
            reset |-> resetAt \div 1000],
           [isPremium |-> FALSE])
Limited(resetAt, at) ==
  Response(429, FALSE,
           [limit |-> FREE_TIER_LIMIT, remaining |-> 0, reset |-> resetAt \div 1000,
            retryAfter |-> CeilDiv(resetAt - at, 1000)],
           <<>>)

MapSet(map, key, value) ==
  [k \in DOMAIN map \cup {key} |-> IF k = key THEN value ELSE map[k]]
MapDelete(map, keys) == [k \in DOMAIN map \ keys |-> map[k]]

FreeTier_untilCleanup(store, req, at) ==
  LET fingerprint == generateFingerprint(req)
      fresh == [count |-> 1, resetAt |-> at + LIMIT_WINDOW_MS, firstRequest |-> at]
  IN IF fingerprint \notin DOMAIN store
       THEN [store |-> MapSet(store, fingerprint, fresh),
             response |-> Admitted(FREE_TIER_LIMIT - 1, fresh.resetAt)]
     ELSE LET entry == store[fingerprint]
          IN IF entry.count >= FREE_TIER_LIMIT
               THEN [store |-> store, response |-> Limited(entry.resetAt, at)]
               ELSE [store |-> MapSet(store, fingerprint,
                                      [entry EXCEPT !.count = @ + 1]),
                     response |-> Admitted(FREE_TIER_LIMIT - (entry.count + 1),
                                           entry.resetAt)]
\* the free-tier branch of rateLimiter
FreeTier(store, req, at) ==
  LET fingerprint == generateFingerprint(req)
      fresh == [count |-> 1, resetAt |-> at + LIMIT_WINDOW_MS, firstRequest |-> at]
  IN IF fingerprint \notin DOMAIN store \/ store[fingerprint].resetAt < at
       THEN [store |-> MapSet(store, fingerprint, fresh),
             response |-> Admitted(FREE_TIER_LIMIT - 1, fresh.resetAt)]
     ELSE LET entry == store[fingerprint]
          IN IF entry.count >= FREE_TIER_LIMIT
               THEN [store |-> store, response |-> Limited(entry.resetAt, at)]
               ELSE [store |-> MapSet(store, fingerprint,
                                      [entry EXCEPT !.count = @ + 1]),
                     response |-> Admitted(FREE_TIER_LIMIT - (entry.count + 1),
                                           entry.resetAt)]

\* rateLimiter: the new store, the api_keys rows whose last_used_at it set,
\* the response, and whether the free-tier branch decided
rateLimiter(store, used, req, at) ==
  LET apiKey == extractApiKey(req)
      keyRow == validate(LimiterApiKeys, apiKey)
      free == FreeTier(store, req, at)
  IN IF apiKey # ""
       THEN IF keyRow # 0
              THEN [store |-> store, used |-> used \cup {LimiterApiKeys[keyRow].id},
                    response |->
                      IF hasValidSubscription(LimiterDb, LimiterApiKeys[keyRow].user_id)
                        THEN Unlimited(LimiterApiKeys[keyRow].user_id)
                        ELSE Rejected(403),
                    free |-> FALSE]
              ELSE [store |-> store, used |-> used, response |-> Rejected(401),
                    free |-> FALSE]
     ELSE IF req.user # 0 /\ hasValidSubscription(LimiterDb, req.user)
       THEN [store |-> store, used |-> used, response |-> Unlimited(req.user),
             free |-> FALSE]
     ELSE [store |-> free.store, used |-> used, response |-> free.response,
           free |-> TRUE]

\* the setInterval callback that drops expired entries
Expired(store, at) == {k \in DOMAIN store : store[k].resetAt < at}
CleanupExpired ==
  /\ rateLimitStore' = MapDelete(rateLimitStore, Expired(rateLimitStore, rlNow))
  /\ UNCHANGED <<rlNow, rlKeyUsed, rlLog, rlResponse, notLimit>>

RlTick ==
  /\ rlNow < MaxRlTimeMs
  /\ rlNow' = rlNow + RlTickMs
  /\ UNCHANGED <<rateLimitStore, rlKeyUsed, rlLog, rlResponse, notLimit>>

LogEntry(req, when, status) ==
  [fingerprint |-> generateFingerprint(req), ip |-> req.ip, at |-> when,
   status |-> status]

HandleRequest(req) ==
  /\ Len(rlLog) < MaxRequests
  /\ LET out == rateLimiter(rateLimitStore, rlKeyUsed, req, rlNow)
     IN /\ rateLimitStore' = out.store
        /\ rlKeyUsed' = out.used
        /\ rlResponse' = out.response
        /\ rlLog' = IF out.free
                      THEN Append(rlLog, LogEntry(req, rlNow, out.response.status))
                      ELSE rlLog
  /\ UNCHANGED <<rlNow, notLimit>>

\* the requests the limiter is checked on: one address with and without a
\* User-Agent, the three carriers of a key, a signed-in user with and
\* without a valid subscription
ClientIP == "203.0.113.7"
Curl == ("user-agent" :> "curl/8.5.0") @@ ("accept-language" :> "en-US")
SampleRequests ==
  { Request(ClientIP, Curl, <<>>, 0),
    Request(ClientIP, "accept-language" :> "en-US", <<>>, 0),
    Request(ClientIP, "authorization" :> "Bearer di_alpha", <<>>, 0),
    Request(ClientIP, Curl, "apiKey" :> "di_bravo", 0),
    Request(ClientIP, "x-api-key" :> "di_retired", <<>>, 0),
    Request(ClientIP, Curl, "apiKey" :> "di_nobody", 0),
    Request(ClientIP, "authorization" :> "Basic di_alpha", <<>>, 1),
    Request(ClientIP, Curl, "apiKey" :> "key", 2) }

InitLimit ==
  /\ IdleProp /\ IdleAn /\ IdleScore /\ IdleZone /\ IdleEnum /\ IdleBilling
  /\ IdleLimit /\ IdleFn

NextLimit ==
  \/ RlTick
  \/ CleanupExpired
  \/ \E req \in SampleRequests : HandleRequest(req)

SpecLimit == InitLimit /\ [][NextLimit]_vars

\* the requests of one fingerprint the limiter admitted from instant t on,
\* less than 24 hours later
AdmittedWithin(fingerprint, t) ==
  {j \in 1..Len(rlLog) :
     /\ rlLog[j].fingerprint = fingerprint
     /\ rlLog[j].status = 200
     /\ t <= rlLog[j].at
     /\ rlLog[j].at < t + LIMIT_WINDOW_MS}

\* C11: of the requests of one client fingerprint without a valid
\* subscription, at most 3 are admitted within any 24 hours (an interval that
\* holds admitted requests can be taken to start at one of them), and every
\* request after the third admitted one in such an interval is answered 429.
C11_ThreePerDay ==
  \A i \in 1..Len(rlLog) :
    rlLog[i].status = 200 =>
      Cardinality(AdmittedWithin(rlLog[i].fingerprint, rlLog[i].at)) <= FREE_TIER_LIMIT

----------------------------------------------------------------------------
(* validateA on its own: zoneHealth.ts *)

\* dotted-quad addresses in and around the private ranges
SampleAddresses ==
  { "10.0.0.1", "100.10.0.1", "127.0.0.1", "172.15.0.1", "172.16.0.1",
    "172.2.0.1", "172.20.5.5", "172.200.1.1", "172.31.255.255", "172.32.0.1",
    "192.168.1.1", "192.169.1.1", "8.8.8.8" }
SampleTTLs == {30, 300}
SampleARecords == {Rec("A", ttl, ip) : ttl \in SampleTTLs, ip \in SampleAddresses}
SampleARecordLists ==
  UNION {[1..n -> SampleARecords] : n \in 0..MaxARecords}

CallValidateA ==
  /\ fnOutput = NoValue
  /\ fnOutput' = [issues |-> validateA(fnInput.records)]
  /\ UNCHANGED <<fnInput, notFn>>

InitValidateA ==
  /\ IdleProp /\ IdleAn /\ IdleScore /\ IdleZone /\ IdleEnum /\ IdleBilling
  /\ IdleLimit
  /\ fnInput \in {[records |-> rs] : rs \in SampleARecordLists}
  /\ fnOutput = NoValue

NextValidateA == CallValidateA

SpecValidateA == InitValidateA /\ [][NextValidateA]_vars

\* the address, four decimal octets, lies in 10.0.0.0/8, 172.16.0.0/12,
\* 192.168.0.0/16 or 127.0.0.0/8
InPrivateRange(ip) ==
  LET octets == SplitChar(ip, ".")
      first == ParseInt(octets[1]).val
      second == ParseInt(octets[2]).val
  IN \/ first = 10
     \/ first = 172 /\ second >= 16 /\ second <= 31
     \/ first = 192 /\ second = 168
     \/ first = 127

PrivateAddressIssues(issues) ==
  {k \in 1..Len(issues) :
     /\ issues[k].severity = "critical"
     /\ issues[k].category = "A"
     /\ StartsWith(issues[k].message, "A record(s) point to private IP address(es)")}

\* C12: validateA raises the critical/A private-address issue if and only if
\* the data of at least one A record lies in one of the private ranges 10.,
\* 172.16. to 172.31., 192.168., 127.; addresses 172.x outside 172.16-172.31
\* included.
C12_PrivateIffInRange ==
  fnOutput # NoValue /\ "records" \in DOMAIN fnInput =>
    ( PrivateAddressIssues(fnOutput.issues) # {}
      <=> \E k \in 1..Len(fnInput.records) : InPrivateRange(fnInput.records[k].data) )

----------------------------------------------------------------------------
(* queryDoHResolver, from the parsed JSON body to the DNSResponse:         *)
(* dnsResolver.ts.  A JSON object is a function from the names of the      *)
(* fields it has to their values.                                          *)

\* DNS_RECORD_TYPES, in insertion order
DNS_RECORD_TYPES ==
  << <<"A", 1>>, <<"AAAA", 28>>, <<"CNAME", 5>>, <<"MX", 15>>, <<"NS", 2>>,
     <<"TXT", 16>>, <<"SOA", 6>>, <<"PTR", 12>>, <<"SRV", 33>>, <<"CAA", 257>>,
     <<"DNSKEY", 48>>, <<"DS", 43>> >>

getRecordTypeName_byPosition(typeNum) ==
  IF typeNum \in 1..Len(DNS_RECORD_TYPES) THEN DNS_RECORD_TYPES[typeNum][1]
  ELSE "TYPE" \o ToString(typeNum)
getRecordTypeName(typeNum) ==
  LET hits == {k \in 1..Len(DNS_RECORD_TYPES) : DNS_RECORD_TYPES[k][2] = typeNum}
  IN IF hits # {} THEN DNS_RECORD_TYPES[FirstOf(hits)][1]
     ELSE "TYPE" \o ToString(typeNum)

statusTexts ==
  (0 :> "NOERROR") @@ (1 :> "FORMERR") @@ (2 :> "SERVFAIL") @@ (3 :> "NXDOMAIN")
    @@ (4 :> "NOTIMP") @@ (5 :> "REFUSED")

\* data.X?.map(q => ({name, type}))
QuestionOf(entries) ==
  [k \in 1..Len(entries) |-> [name |-> entries[k].name, type |-> entries[k].type]]
\* data.X?.map(a => ({name, type, typeName, TTL, data}))
RecordsFrom(entries) ==
  [k \in 1..Len(entries) |->
     [name |-> entries[k].name, type |-> entries[k].type,
      typeName |-> getRecordTypeName(entries[k].type),
      TTL |-> entries[k].TTL, data |-> entries[k].data]]

\* the object queryDoHResolver returns for the body data; a field whose
\* expression is undefined is left out
DoHResponseOf(data) ==
  LET has(name) == name \in DOMAIN data
      statusText ==
        IF has("Status") /\ data["Status"] \in DOMAIN statusTexts
          THEN statusTexts[data["Status"]]
        ELSE IF has("Status") THEN "UNKNOWN(" \o ToString(data["Status"]) \o ")"
        ELSE "UNKNOWN(undefined)"
  IN ("status" :> FieldOr(data, "Status", 0))
     @@ ("statusText" :> statusText)
     @@ ("question" :> IF has("Question") THEN QuestionOf(data["Question"]) ELSE <<>>)
     @@ ("answer" :> IF has("Answer") THEN RecordsFrom(data["Answer"]) ELSE <<>>)
     @@ (IF has("Authority") THEN "authority" :> RecordsFrom(data["Authority"]) ELSE <<>>)
     @@ (IF has("Additional") THEN "additional" :> RecordsFrom(data["Additional"]) ELSE <<>>)
     @@ ("AD" :> FieldOr(data, "AD", FALSE))
     @@ ("CD" :> FieldOr(data, "CD", FALSE))
     @@ ("TC" :> FieldOr(data, "TC", FALSE))
     @@ ("RD" :> FieldOr(data, "RD", TRUE))
     @@ ("RA" :> FieldOr(data, "RA", TRUE))

\* bodies a resolver sends: every field there or not
WireRecord(type, data) ==
  [name |-> "example.com.", type |-> type, TTL |-> 300, data |-> data]
SampleSections ==
  << <<>>, <<WireRecord(1, "192.0.2.1")>>,
     <<WireRecord(5, "edge.example.net."), WireRecord(65, "1 . alpn=h2")>> >>
OptionalField(name, present, value) == IF present THEN name :> value ELSE <<>>
\* status -1 and flag -1 stand for a body without the field
SampleStatusCodes == (-1)..MaxStatusCode
FlagChoices == {-1, 0, 1}
Payload(status, question, answer, extra, ad, cd, tc, rd, ra) ==
  OptionalField("Status", status >= 0, status)
  @@ OptionalField("Question", question, <<[name |-> "example.com.", type |-> 1]>>)
  @@ OptionalField("Answer", answer # 0, SampleSections[answer])
  @@ OptionalField("Authority", extra, <<WireRecord(6, "ns1.example.com. admin.example.com. 1 2 3 4 5")>>)
  @@ OptionalField("Additional", extra, <<WireRecord(1, "192.0.2.53")>>)
  @@ OptionalField("AD", ad >= 0, ad = 1)
  @@ OptionalField("CD", cd >= 0, cd = 1)
  @@ OptionalField("TC", tc >= 0, tc = 1)
  @@ OptionalField("RD", rd >= 0, rd = 1)
  @@ OptionalField("RA", ra >= 0, ra = 1)

ParseBody ==
  /\ fnOutput = NoValue
  /\ fnOutput' = [response |-> DoHResponseOf(fnInput.data)]
  /\ UNCHANGED <<fnInput, notFn>>

InitDoH ==
  /\ IdleProp /\ IdleAn /\ IdleScore /\ IdleZone /\ IdleEnum /\ IdleBilling
  /\ IdleLimit
  /\ \E status \in SampleStatusCodes, question \in BOOLEAN,
        answer \in 0..Len(SampleSections), extra \in BOOLEAN,
        ad \in FlagChoices, cd \in FlagChoices, tc \in FlagChoices,
        rd \in FlagChoices, ra \in FlagChoices :
       fnInput = [data |-> Payload(status, question, answer, extra, ad, cd, tc, rd, ra)]
  /\ fnOutput = NoValue

NextDoH == ParseBody

SpecDoH == InitDoH /\ [][NextDoH]_vars

DoHReturned == fnOutput # NoValue /\ "response" \in DOMAIN fnOutput

\* C13: for a parsed body, every field missing from it is defaulted: question
\* and answer to the empty sequence, each of the flags AD, CD, TC, RD, RA to
\* false.
C13_MissingFieldsDefault ==
  DoHReturned =>
    /\ "Question" \notin DOMAIN fnInput.data => fnOutput.response["question"] = <<>>
    /\ "Answer" \notin DOMAIN fnInput.data => fnOutput.response["answer"] = <<>>
    /\ \A flag \in {"AD", "CD", "TC", "RD", "RA"} :
         flag \notin DOMAIN fnInput.data => fnOutput.response[flag] = FALSE

\* RFC 1035 names of the status codes, UNKNOWN(n) for any other code
StatusName(code) ==
  CASE code = 0 -> "NOERROR" [] code = 1 -> "FORMERR" [] code = 2 -> "SERVFAIL"
    [] code = 3 -> "NXDOMAIN" [] code = 4 -> "NOTIMP" [] code = 5 -> "REFUSED"
    [] OTHER -> "UNKNOWN(" \o ToString(code) \o ")"

\* C14: a body without Status gives status 0 with status text NOERROR, and
\* in every response the status text is the name of the returned status code.
C14_StatusTextOfCode ==
  DoHReturned =>
    /\ "Status" \notin DOMAIN fnInput.data =>
         /\ fnOutput.response["status"] = 0
         /\ fnOutput.response["statusText"] = "NOERROR"
    /\ fnOutput.response["statusText"] = StatusName(fnOutput.response["status"])

----------------------------------------------------------------------------
(* Claims about the verdict of analyzePropagation (SpecAnalyze) *)

SaysPropagated(summary) == Includes(summary, "with consistent results")
SaysOnlyPropagated(summary) == StartsWith(summary, "DNS records have only propagated to ")
SaysInconsistent(summary) == StartsWith(summary, "DNS records show inconsistencies")

\* C15: propagated is true exactly when percentage >= 70 and the records are
\* consistent, and the summary is one of three texts: the 'propagated with
\* consistent results' text exactly when propagated, the 'only propagated to
\* N%' text exactly when percentage < 70, the 'inconsistencies' text exactly
\* when percentage >= 70 and the records are inconsistent.
C15_VerdictAndSummary ==
  anOutput # NoValue =>
    /\ anOutput.propagated <=> (anOutput.percentage >= 70 /\ anOutput.consistentRecords)
    /\ SaysPropagated(anOutput.summary) <=> anOutput.propagated
    /\ SaysOnlyPropagated(anOutput.summary) <=> anOutput.percentage < 70
    /\ SaysInconsistent(anOutput.summary)
         <=> (anOutput.percentage >= 70 /\ ~anOutput.consistentRecords)
    /\ Cardinality({t \in {"p", "o", "i"} :
                      \/ t = "p" /\ SaysPropagated(anOutput.summary)
                      \/ t = "o" /\ SaysOnlyPropagated(anOutput.summary)
                      \/ t = "i" /\ SaysInconsistent(anOutput.summary)}) = 1

\* six of the seven resolvers answered, not all with the same addresses
C15_Witness ==
  /\ anOutput # NoValue
  /\ Len(anInput) = Len(GLOBAL_RESOLVERS)
  /\ anOutput.percentage >= 70
  /\ ~anOutput.consistentRecords
  /\ SaysInconsistent(anOutput.summary)

\* C16: for a non-empty result sequence with s successes out of n results,
\* percentage is the integer in 0..100 nearest to 100 * s / n; 5 successes
\* out of 7 give 71.
C16_PercentageRounded ==
  anOutput # NoValue =>
    LET s == Cardinality(AnSuccessful)
        n == Len(anInput)
        p == anOutput.percentage
    IN /\ p \in 0..100
       /\ 2 * (100 * s - p * n) <= n
       /\ 2 * (p * n - 100 * s) <= n
       /\ (s = 5 /\ n = 7) => p = 71

C16_Witness ==
  /\ anOutput # NoValue
  /\ Len(anInput) = 7
  /\ Cardinality(AnSuccessful) = 5
  /\ anOutput.percentage = 71

----------------------------------------------------------------------------
(* Claims about the wordlist phase, the size and the order of the result   *)
(* of enumerateSubdomains (SpecEnum)                                       *)

WordlistName(k) == COMMON_SUBDOMAINS[k] \o "." \o QueriedDomain
ResultEntries == 1..Len(eResult.subdomains)

C18_OnlyResolvingGuesses ==
  eState = "done" =>
    /\ \A k \in ResultEntries :
         eResult.subdomains[k].source = WORDLIST_SOURCE => eResult.subdomains[k].resolves
    /\ \A name \in SeqToSet(ctSubdomains) :
         \/ \E k \in EntriesFor(name) : eResult.subdomains[k].source = CT_SOURCE
         \/ ctCount >= eOpts.maxResults

\* a run returned that reports a certificate-transparency name that does not
\* resolve and a wordlist name that does, and dropped a wordlist guess
C18_Witness ==
  /\ eState = "done"
  /\ \E k \in ResultEntries :
       eResult.subdomains[k].source = CT_SOURCE /\ ~eResult.subdomains[k].resolves
  /\ \E k \in ResultEntries : eResult.subdomains[k].source = WORDLIST_SOURCE
  /\ \E j \in 1..Len(wlProbes) : EntriesFor(WordlistName(j)) = {}

\* C19: for every maxResults >= 0, every certificate-transparency list and
\* every pattern of wordlist resolution, totalFound is the length of
\* subdomains and at most maxResults.
C19_AtMostMaxResults ==
  eState = "done" =>
    /\ eResult.totalFound = Len(eResult.subdomains)
    /\ eResult.totalFound <= eOpts.maxResults

\* a run returned a full result: certificate-transparency names and, in the
\* room they left, wordlist guesses that all resolved
C19_Witness ==
  /\ eState = "done"
  /\ eResult.totalFound = eOpts.maxResults
  /\ ctCount > 0
  /\ commonCount > 0

\* C20: the returned subdomains are sorted ascending by label under ordinal
\* (code-unit) comparison, the apex label "@" and labels with digits, hyphens
\* or underscores included.
C20_SortedOrdinal ==
  eState = "done" =>
    \A k \in ResultEntries, l \in ResultEntries :
      k < l => ~StrLess(eResult.subdomains[l].subdomain, eResult.subdomains[k].subdomain)

----------------------------------------------------------------------------
(* Claims about failures and the TLS probe in enumerateSubdomains (SpecEnum) *)

\* the wordlist names phase 2 starts with when nothing was found before
FirstGuesses(maxResults) == 1..Min(Len(COMMON_SUBDOMAINS), maxResults)

\* C21: when the certificate-transparency query fails (network error,
\* non-2xx status, unparsable body) enumerateSubdomains goes on with an empty
\* certificate-transparency list: it is in the wordlist phase or has
\* returned, the wordlist names are probed if includeCommon asks for them,
\* and the result it returns has a certificateTransparency count of 0.
C21_CTFailureDegrades ==
  ctCall = "failed" =>
    /\ eState \in {"wordlist", "done"}
    /\ ctSubdomains = <<>>
    /\ ctCount = 0
    /\ eOpts.includeCommon =>
         /\ Len(wlProbes) = Cardinality(FirstGuesses(eOpts.maxResults))
         /\ \A j \in FirstGuesses(eOpts.maxResults) : WordlistName(j) \in seenDomains
    /\ eState = "done" =>
         /\ eResult.sources.certificateTransparency = 0
         /\ eResult.totalFound = eResult.sources.commonSubdomains

\* the query failed and the run returned what the wordlist found
C21_Witness ==
  /\ ctCall = "failed"
  /\ eState = "done"
  /\ eResult.sources.certificateTransparency = 0
  /\ eResult.sources.commonSubdomains > 0

\* C22: the TLS probe of a candidate is attempted only if checkSSL is true
\* and the candidate resolved; so in every result an entry with hasSSL = true
\* has resolves = true, and with checkSSL = false no entry has hasSSL = true.
C22_ProbeOnlyResolving ==
  /\ ctProbe = "ssl" => eOpts.checkSSL /\ eCur.resolves
  /\ \A j \in 1..Len(wlProbes) :
       wlProbes[j].stage = "ssl" => eOpts.checkSSL /\ Len(wlProbes[j].ipAddresses) > 0
  /\ eState = "done" =>
       \A k \in ResultEntries :
         /\ eResult.subdomains[k].hasSSL => eResult.subdomains[k].resolves
         /\ ~eOpts.checkSSL => ~eResult.subdomains[k].hasSSL

\* a run with checkSSL returned an entry that answers TLS next to one that
\* does not resolve
C22_Witness ==
  /\ eState = "done"
  /\ eOpts.checkSSL
  /\ \E k \in ResultEntries : eResult.subdomains[k].hasSSL
  /\ \E k \in ResultEntries : ~eResult.subdomains[k].resolves

----------------------------------------------------------------------------
(* checkSSLCertificate on its own: subdomainEnum.ts *)

\* how the HEAD request can end: a response, the timer, or an error with one
\* of these codes
SampleTlsOutcomes ==
  SslOutcomes \cup {SSL_ABORTED, "ENOTFOUND", "ETIMEDOUT", "SELF_SIGNED_CERT_IN_CHAIN",
                     "UNABLE_TO_GET_ISSUER_CERT_LOCALLY"}
SampleProbes ==
  [fullDomain : {COMMON_SUBDOMAINS[k] \o "." \o QueriedDomain :
                   k \in 1..Min(MaxProbedNames, Len(COMMON_SUBDOMAINS))},
   outcome : SampleTlsOutcomes]

ProbeCertificate ==
  /\ fnOutput = NoValue
  /\ fnOutput' = [ssl |-> checkSSLCertificate(fnInput.outcome)]
  /\ UNCHANGED <<fnInput, notFn>>

InitSsl ==
  /\ IdleProp /\ IdleAn /\ IdleScore /\ IdleZone /\ IdleEnum /\ IdleBilling
  /\ IdleLimit
  /\ fnInput \in SampleProbes
  /\ fnOutput = NoValue

NextSsl == ProbeCertificate

SpecSsl == InitSsl /\ [][NextSsl]_vars

\* the TLS handshake got as far as the peer's certificate, which strict
\* validation rejected: expired, wrong host name, chain that cannot be
\* verified, self-signed
CertificateRejected ==
  {"CERT_HAS_EXPIRED", "ERR_TLS_CERT_ALTNAME_INVALID", "UNABLE_TO_VERIFY_LEAF_SIGNATURE",
   "UNABLE_TO_GET_ISSUER_CERT_LOCALLY", "DEPTH_ZERO_SELF_SIGNED_CERT",
   "SELF_SIGNED_CERT_IN_CHAIN"}

\* C23: checkSSLCertificate reports hasSSL = true whenever the handshake
\* completed, a certificate rejected by strict validation included (expired,
\* host name mismatch, unverifiable chain, self-signed), and hasSSL = false
\* only when the connection failed outright or the 5-second timer fired.
C23_HandshakeMeansSSL ==
  (fnOutput # NoValue /\ "ssl" \in DOMAIN fnOutput) =>
    ( fnOutput.ssl.hasSSL
      <=> fnInput.outcome \in {"response"} \cup CertificateRejected )

----------------------------------------------------------------------------
(* validateSOA on its own: zoneHealth.ts *)

SoaData(mname, rname, refresh) ==
  Join(<<mname, rname, "2024010101", ToString(refresh), "900", "1209600", "300">>, " ")
SampleRefresh == {0, 600, 1199, 1200, 3600, 43200, 43201, 86400}
SampleSoaTTLs == {60, 300, 3600}
SampleRnames == {"admin.example.com.", "hostmaster", "dns-admin.example.net."}
SampleSoaRecords ==
  {Rec("SOA", ttl, SoaData("ns1.example.com.", rname, refresh)) :
     ttl \in SampleSoaTTLs, rname \in SampleRnames, refresh \in SampleRefresh}
  \cup {Rec("SOA", 3600, "ns1.example.com. admin.example.com. 2024010101")}
\* the answer section of the SOA query: none, one record, or one with a
\* second behind it
SampleSoaAnswers ==
  {<<>>} \cup {<<r>> : r \in SampleSoaRecords}
  \cup {<<r, Rec("SOA", 60, SoaData("ns2.example.com.", "x", 0))>> : r \in SampleSoaRecords}

CallValidateSOA ==
  /\ fnOutput = NoValue
  /\ fnOutput' = [issues |-> validateSOA(fnInput.soa)]
  /\ UNCHANGED <<fnInput, notFn>>

InitValidateSOA ==
  /\ IdleProp /\ IdleAn /\ IdleScore /\ IdleZone /\ IdleEnum /\ IdleBilling
  /\ IdleLimit
  /\ fnInput \in {[soa |-> a] : a \in SampleSoaAnswers}
  /\ fnOutput = NoValue

NextValidateSOA == CallValidateSOA

SpecValidateSOA == InitValidateSOA /\ [][NextValidateSOA]_vars

\* the first SOA record has seven fields, the five numbers in digits, an
\* rname with a dot, and a TTL of at least 300
SoaInRange(records) ==
  LET parts == SplitWS(records[1].data)
  IN /\ Len(parts) = 7
     /\ \A k \in 3..7 : AllDigits(parts[k])
     /\ Includes(parts[2], ".")
     /\ records[1].TTL >= 300
SoaRefresh(records) == ParseInt(SplitWS(records[1].data)[4]).val
IsIssue(issue, severity, category) ==
  issue.severity = severity /\ issue.category = category

\* C24: a missing SOA gives exactly one issue, critical/SOA; a present SOA
\* with seven well-formed fields, TTL >= 300 and a dot in rname gives exactly
\* one issue, warning/SOA naming the refresh interval, when refresh < 1200,
\* exactly one issue, info/SOA, when refresh > 43200, and none in between.
C24_SoaRefreshIssues ==
  (fnOutput # NoValue /\ "soa" \in DOMAIN fnInput) =>
    LET records == fnInput.soa
        issues == fnOutput.issues
    IN /\ Len(records) = 0 =>
            Len(issues) = 1 /\ IsIssue(issues[1], "critical", "SOA")
       /\ (Len(records) > 0 /\ SoaInRange(records)) =>
            /\ SoaRefresh(records) < 1200 =>
                 /\ Len(issues) = 1
                 /\ IsIssue(issues[1], "warning", "SOA")
                 /\ Includes(issues[1].message, "refresh interval")
            /\ SoaRefresh(records) > 43200 =>
                 Len(issues) = 1 /\ IsIssue(issues[1], "info", "SOA")
            /\ (SoaRefresh(records) >= 1200 /\ SoaRefresh(records) <= 43200) =>
                 issues = <<>>

\* an SOA with refresh 600 and nothing else out of range was validated
C24_Witness ==
  /\ fnOutput # NoValue
  /\ "soa" \in DOMAIN fnInput
  /\ Len(fnInput.soa) > 0
  /\ SoaInRange(fnInput.soa)
  /\ SoaRefresh(fnInput.soa) = 600
  /\ Len(fnOutput.issues) = 1

----------------------------------------------------------------------------
(* validateMX and validateTXT on their own: zoneHealth.ts *)

SampleIpHosts == {"203.0.113.5", "198.51.100.7"}
SampleMailHosts == {"mail.example.com", "mx2.example.net", "203.0.113.5.example.com"}
SamplePriorities == {"10", "20"}
\* the data of an MX answer for one host: "priority host" or the bare host
MxDataFor(host) == {host} \cup {p \o " " \o host : p \in SamplePriorities}
SampleMxData == UNION {MxDataFor(h) : h \in SampleIpHosts \cup SampleMailHosts}
SampleMxRecords == {Rec("MX", 3600, data) : data \in SampleMxData}
SampleMxAnswers ==
  UNION {[1..n -> SampleMxRecords] : n \in 0..MaxRecordsPerType}

CallValidateMX ==
  /\ fnOutput = NoValue
  /\ "mx" \in DOMAIN fnInput
  /\ fnOutput' = [issues |-> validateMX(fnInput.mx)]
  /\ UNCHANGED <<fnInput, notFn>>

\* each TXT sample with what it is: <<data, an SPF record, with an "all"
\* mechanism of the three spellings>>
SampleTxt ==
  <<
    <<"v=spf1 include:_spf.example.com ~all", TRUE, TRUE>>,
    <<"V=SPF1 mx -all", TRUE, TRUE>>,
    <<"v=spf1 a ?all", TRUE, TRUE>>,
    <<"v=spf1 include:example.net", TRUE, FALSE>>,
    <<"v=spf1 mx +all", TRUE, FALSE>>,
    <<"site-verification=4f2a", FALSE, FALSE>>,
    <<"v=DMARC1; p=none -all", FALSE, TRUE>>
  >>
SampleTxtRecords == {Rec("TXT", 3600, SampleTxt[k][1]) : k \in 1..Len(SampleTxt)}
SampleTxtAnswers ==
  UNION {[1..n -> SampleTxtRecords] : n \in 0..MaxRecordsPerType + 1}

CallValidateTXT ==
  /\ fnOutput = NoValue
  /\ "txt" \in DOMAIN fnInput
  /\ fnOutput' = [result |-> validateTXT(fnInput.txt)]
  /\ UNCHANGED <<fnInput, notFn>>

InitValidateMail ==
  /\ IdleProp /\ IdleAn /\ IdleScore /\ IdleZone /\ IdleEnum /\ IdleBilling
  /\ IdleLimit
  /\ fnInput \in {[mx |-> a] : a \in SampleMxAnswers}
                 \cup {[txt |-> a] : a \in SampleTxtAnswers}
  /\ fnOutput = NoValue

NextValidateMail == CallValidateMX \/ CallValidateTXT

SpecValidateMail == InitValidateMail /\ [][NextValidateMail]_vars

\* the record's data names one of the hosts, bare or behind a priority
MxNames(record, hosts) == \E h \in hosts : record.data \in MxDataFor(h)
CriticalMx(issues) ==
  {k \in 1..Len(issues) : IsIssue(issues[k], "critical", "MX")}

TxtSample(record) == CHOOSE k \in 1..Len(SampleTxt) : SampleTxt[k][1] = record.data
SpfCount(records) ==
  Cardinality({k \in 1..Len(records) : SampleTxt[TxtSample(records[k])][2]})
TheSpf(records) ==
  records[CHOOSE k \in 1..Len(records) : SampleTxt[TxtSample(records[k])][2]]

\* C26: for a non-empty TXT set validateTXT gives one SPF outcome: the
\* warning "No SPF record found" when no record contains v=spf1 in any case,
\* one critical issue when more than one does, one warning about the missing
\* "all" mechanism when exactly one does and it has none of ~all, -all, ?all,
\* and no issue when exactly one does and it has one of them; hasSPF is true
\* exactly when at least one record is an SPF record.
C26_SpfOutcome ==
  (fnOutput # NoValue /\ "txt" \in DOMAIN fnInput /\ Len(fnInput.txt) > 0) =>
    LET records == fnInput.txt
        issues == fnOutput.result.issues
        n == SpfCount(records)
    IN /\ fnOutput.result.hasSPF = (n >= 1)
       /\ n = 0 =>
            /\ Len(issues) = 1
            /\ IsIssue(issues[1], "warning", "TXT")
            /\ issues[1].message = "No SPF record found"
       /\ n > 1 =>
            /\ Len(issues) = 1
            /\ IsIssue(issues[1], "critical", "TXT")
            /\ Includes(issues[1].message, "Multiple SPF records")
       /\ (n = 1 /\ ~SampleTxt[TxtSample(TheSpf(records))][3]) =>
            /\ Len(issues) = 1
            /\ IsIssue(issues[1], "warning", "TXT")
            /\ Includes(issues[1].message, "missing \"all\"")
       /\ (n = 1 /\ SampleTxt[TxtSample(TheSpf(records))][3]) => issues = <<>>

\* a TXT set with the one SPF record spelled in capitals and a verification
\* token was validated without an issue
C26_Witness ==
  /\ fnOutput # NoValue
  /\ "txt" \in DOMAIN fnInput
  /\ Len(fnInput.txt) = 2
  /\ fnInput.txt[1].data = "site-verification=4f2a"
  /\ fnInput.txt[2].data = "V=SPF1 mx -all"
  /\ fnOutput.result.hasSPF
  /\ fnOutput.result.issues = <<>>

----------------------------------------------------------------------------
(* analyzeZoneHealth on zones in good order, every query answered *)

InitZoneTidy ==
  /\ IdleProp /\ IdleAn /\ IdleScore /\ IdleEnum /\ IdleBilling /\ IdleLimit /\ IdleFn
  /\ zState = "idle"
  /\ zZone \in SampleTidyZones
  /\ zFailure \in SampleFailures
  /\ zPending = {}
  /\ zRecords = <<>>
  /\ zErrors = <<>>
  /\ zFailed = {}
  /\ zReport = NoValue

NextZoneTidy ==
  \/ StartAnalyzeZoneHealth
  \/ \E t \in RecordTypeSet : FetchAnswered(t)

SpecZoneTidy == InitZoneTidy /\ [][NextZoneTidy]_vars

\* the labels of a host name, lower case; the dot that ends an absolute name
\* ends its last label
Labels(name) ==
  LET parts == SplitChar(ToLowerCase(name), ".")
  IN IF Len(parts) > 1 /\ parts[Len(parts)] = ""
       THEN SubSeq(parts, 1, Len(parts) - 1)
       ELSE parts
LastThreeLabels(name) == LastN(Labels(name), 3)

\* one public A record with TTL >= 60, two NS records whose last three
\* labels differ, one SOA in range with a refresh between 1200 and 43200,
\* and no MX record
TidyRecords(records) ==
  /\ Len(RecordsOf(records, "A")) = 1
  /\ ~InPrivateRange(records["A"][1].data)
  /\ records["A"][1].TTL >= 60
  /\ Len(RecordsOf(records, "NS")) = 2
  /\ LastThreeLabels(records["NS"][1].data) # LastThreeLabels(records["NS"][2].data)
  /\ Len(RecordsOf(records, "SOA")) = 1
  /\ SoaInRange(records["SOA"])
  /\ SoaRefresh(records["SOA"]) >= 1200
  /\ SoaRefresh(records["SOA"]) <= 43200
  /\ Len(RecordsOf(records, "MX")) = 0

OfCategory(issues, category) ==
  {k \in 1..Len(issues) : issues[k].category = category}

\* C27: for fetched records of one public A record with TTL >= 60, two NS
\* records whose last-three-label suffixes differ, one valid SOA in range
\* and no MX, the report has hasMX = false, mxCount = 0, exactly one MX
\* issue, of severity info, nsCount = 2 and no NS issue, and its score and
\* grade are those of the remaining penalties and bonuses.
C27_TidyZoneReport ==
  (zState = "done" /\ TidyRecords(zReport.records)) =>
    LET issues == zReport.issues
        summary == zReport.summary
    IN /\ ~summary.hasMX
       /\ summary.mxCount = 0
       /\ Cardinality(OfCategory(issues, "MX")) = 1
       /\ \A k \in OfCategory(issues, "MX") : issues[k].severity = "info"
       /\ summary.nsCount = 2
       /\ OfCategory(issues, "NS") = {}
       /\ zReport.overallScore = Max(0, Min(100, RawScore(issues, summary)))
       /\ zReport.grade = scoreToGrade(zReport.overallScore)

----------------------------------------------------------------------------
(* The record type queryDoHResolver puts in the query: dnsResolver.ts *)

\* DNS_RECORD_TYPES[name], 0 for a name the table does not hold
TypeCodeOf(name) ==
  LET hits == {k \in 1..Len(DNS_RECORD_TYPES) : DNS_RECORD_TYPES[k][1] = name}
  IN IF hits # {} THEN DNS_RECORD_TYPES[FirstOf(hits)][2] ELSE 0
TypeNames == {DNS_RECORD_TYPES[k][1] : k \in 1..Len(DNS_RECORD_TYPES)}

\* recordType: string | number, as a record saying which of the two it is
StringType(name) == [kind |-> "string", name |-> name]
NumberType(num) == [kind |-> "number", num |-> num]

\* typeof recordType === 'string' ? recordType : getRecordTypeName(recordType)
TypeParam(recordType) ==
  IF recordType.kind = "string" THEN recordType.name
  ELSE getRecordTypeName(recordType.num)

SampleTypeStrings == TypeNames \cup {"HTTPS", "ANY", "a", "TYPE65", "mx "}
SampleRecordTypes ==
  {StringType(s) : s \in SampleTypeStrings} \cup {NumberType(n) : n \in 0..MaxTypeCode}

\* queryDoHResolver up to url.searchParams.set('type', type)
SetTypeParam ==
  /\ fnOutput = NoValue
  /\ fnOutput' = [type |-> TypeParam(fnInput.recordType)]
  /\ UNCHANGED <<fnInput, notFn>>

InitRecordType ==
  /\ IdleProp /\ IdleAn /\ IdleScore /\ IdleZone /\ IdleEnum /\ IdleBilling
  /\ IdleLimit
  /\ fnInput \in {[recordType |-> t] : t \in SampleRecordTypes}
  /\ fnOutput = NoValue

NextRecordType == SetTypeParam

SpecRecordType == InitRecordType /\ [][NextRecordType]_vars

\* C28: the code of every name in the type table is sent as that name; a
\* code the table does not hold is sent as TYPE<n>; a record type given as a
\* string is sent unchanged, in the table or not.
C28_TypeNameRoundTrip ==
  (fnOutput # NoValue /\ "recordType" \in DOMAIN fnInput) =>
    LET recordType == fnInput.recordType
    IN /\ recordType.kind = "number" =>
            /\ \A name \in TypeNames :
                 recordType.num = TypeCodeOf(name) => fnOutput.type = name
            /\ (\A name \in TypeNames : recordType.num # TypeCodeOf(name)) =>
                 fnOutput.type = "TYPE" \o ToString(recordType.num)
       /\ recordType.kind = "string" => fnOutput.type = recordType.name

\* the code of CAA, the largest of the table, was sent as "CAA"
C28_Witness ==
  /\ fnOutput # NoValue
  /\ "recordType" \in DOMAIN fnInput
  /\ fnInput.recordType = NumberType(TypeCodeOf("CAA"))
  /\ fnOutput.type = "CAA"

----------------------------------------------------------------------------
(* lookupWhois: whoisLookup.ts *)

PRIVACY_INDICATORS ==
  <<"privacy", "protect", "proxy", "whoisguard", "domains by proxy", "private",
    "contact privacy", "withheld", "redacted", "gdpr", "data protected",
    "identity protection", "domain privacy", "perfect privacy", "privacydotlink",
    "whois privacy">>

\* the first of the named fields of data that is present and not empty, ""
\* when there is none: data.a || data.b || data.c
FirstTruthy(data, names) ==
  LET held == {k \in 1..Len(names) : FieldOr(data, names[k], "") # ""}
  IN IF held = {} THEN "" ELSE data[names[FirstOf(held)]]

\* JSON.stringify(data).toLowerCase() holds one of the indicators: no
\* indicator has a quote, a colon or a comma in it, so it lies within one
\* key or one value
hasPrivacyProtection(data) ==
  \E name \in DOMAIN data, k \in 1..Len(PRIVACY_INDICATORS) :
    \/ Includes(ToLowerCase(name), PRIVACY_INDICATORS[k])
    \/ Includes(ToLowerCase(data[name]), PRIVACY_INDICATORS[k])

\* generatePrivacySummary for a result without dates, nameservers and status
generatePrivacySummary(registrarName) ==
  IF registrarName # "" THEN "Registered through " \o registrarName \o "."
  ELSE "Limited WHOIS information available due to privacy protection."

\* new Date(s) is a valid date for the ISO form yyyy-mm-dd...; a string
\* without a digit in it is an Invalid Date
IsValidDate(s) ==
  /\ Len(s) >= 10
  /\ AllDigits(SubSeq(s, 1, 4)) /\ CharAt(s, 5) = "-"
  /\ AllDigits(SubSeq(s, 6, 7)) /\ CharAt(s, 8) = "-"
  /\ AllDigits(SubSeq(s, 9, 10))

Returned(result) == [threw |-> FALSE, result |-> result]
Thrown(error) == [threw |-> TRUE, error |-> error]

\* parseWhoisResponse(data) at the instant at; new Date(x).toISOString()
\* throws a RangeError for an Invalid Date
parseWhoisResponse(data, at) ==
  LET registrarName == FirstTruthy(data, <<"registrar", "registrar_name">>)
      created == FirstTruthy(data, <<"creation_date", "created", "created_date">>)
      updated == FirstTruthy(data, <<"updated_date", "updated", "last_updated">>)
      expires == FirstTruthy(data, <<"expiration_date", "expires", "registry_expiry_date">>)
      given == {d \in {created, updated, expires} : d # ""}
      privacyEnabled == hasPrivacyProtection(data)
  IN IF \E d \in given : ~IsValidDate(d)
       THEN Thrown("RangeError: Invalid time value")
       ELSE Returned(
              ("domain" :> FirstTruthy(data, <<"domain", "domain_name">>))
              @@ ("timestamp" :> at)
              @@ ("privacyEnabled" :> privacyEnabled)
              @@ OptionalField("registrar", registrarName # "", registrarName)
              @@ OptionalField("dates", given # {},
                               [created |-> created, updated |-> updated, expires |-> expires])
              @@ OptionalField("summary", privacyEnabled,
                               generatePrivacySummary(registrarName)))

\* what the call of the who-dat service comes to
FetchRejected == [kind |-> "error"]
StatusOnly(status) == [kind |-> "response", status |-> status, json |-> FALSE]
JsonBody(status, data) ==
  [kind |-> "response", status |-> status, json |-> TRUE, data |-> data]

\* queryWhoDat: the parsed body, or null (NoValue) for a rejected fetch, a
\* status outside 200..299 or a body that is not JSON
queryWhoDat(service) ==
  IF service.kind = "response" /\ service.status >= 200 /\ service.status <= 299
     /\ service.json
    THEN service.data
    ELSE NoValue

\* domain.toLowerCase().replace(/^https?:\/\//, '').replace(/^www\./, '')
\*   .split('/')[0].trim()
StripPrefix(s, prefix) ==
  IF StartsWith(s, prefix) THEN SubSeq(s, Len(prefix) + 1, Len(s)) ELSE s
CleanDomain(domain) ==
  LET lower == ToLowerCase(domain)
      noScheme == IF StartsWith(lower, "https://") THEN StripPrefix(lower, "https://")
                  ELSE StripPrefix(lower, "http://")
      noWww == StripPrefix(noScheme, "www.")
  IN Trim(SplitChar(noWww, "/")[1])

UNABLE_SUMMARY ==
  "Unable to retrieve WHOIS data. The domain may use privacy protection or the WHOIS service is unavailable."

lookupWhois(domain, service, at) ==
  LET cleanDomain == CleanDomain(domain)
      whoDatData == queryWhoDat(service)
      parsed == parseWhoisResponse(whoDatData, at)
  IN IF whoDatData # NoValue
       THEN IF parsed.threw THEN parsed
            ELSE Returned([parsed.result EXCEPT !["domain"] = cleanDomain])
       ELSE Returned(("domain" :> cleanDomain) @@ ("timestamp" :> at)
                     @@ ("privacyEnabled" :> TRUE) @@ ("summary" :> UNABLE_SUMMARY))

\* each queried domain with the name it stands for
SampleQueries ==
  <<
    <<"example.com", "example.com">>,
    <<"HTTPS://WWW.Example.com/path", "example.com">>,
    <<"www.example.org", "example.org">>,
    <<"http://example.net/", "example.net">>
  >>
SampleWhoisData ==
  {
    ("domain_name" :> "EXAMPLE.COM") @@ ("registrar" :> "Example Registrar, Inc.")
      @@ ("creation_date" :> "1995-08-14T04:00:00Z")
      @@ ("expiration_date" :> "2027-08-13T04:00:00Z"),
    ("domain_name" :> "EXAMPLE.COM") @@ ("registrar" :> "Example Registrar, Inc.")
      @@ ("registrant_name" :> "REDACTED FOR PRIVACY"),
    ("domain" :> "example.org") @@ ("registrant_organization" :> "Domains By Proxy, LLC"),
    ("domain_name" :> "EXAMPLE.COM") @@ ("registrar" :> "Example Registrar, Inc.")
      @@ ("creation_date" :> "unknown"),
    ("domain" :> "example.net") @@ ("updated" :> "2024-03-01")
  }
SampleStatuses == {200, 201, 400, 404, 429, 500, 503}
SampleServices ==
  {FetchRejected} \cup {StatusOnly(s) : s \in SampleStatuses}
  \cup {JsonBody(s, data) : s \in SampleStatuses, data \in SampleWhoisData}
\* Date.now() at the call, in seconds
SampleInstants == {1762041600, 1762045200}

CallLookupWhois ==
  /\ fnOutput = NoValue
  /\ fnOutput' = lookupWhois(fnInput.domain, fnInput.service, fnInput.at)
  /\ UNCHANGED <<fnInput, notFn>>

InitWhois ==
  /\ IdleProp /\ IdleAn /\ IdleScore /\ IdleZone /\ IdleEnum /\ IdleBilling
  /\ IdleLimit
  /\ fnInput \in {[domain |-> SampleQueries[q][1], service |-> s, at |-> t] :
                    q \in 1..Len(SampleQueries), s \in SampleServices, t \in SampleInstants}
  /\ fnOutput = NoValue

NextWhois == CallLookupWhois

SpecWhois == InitWhois /\ [][NextWhois]_vars

WhoisCalled == fnOutput # NoValue /\ "service" \in DOMAIN fnInput
ServiceFailed(service) ==
  service.kind = "error" \/ service.status < 200 \/ service.status > 299
QueriedName(domain) ==
  SampleQueries[CHOOSE q \in 1..Len(SampleQueries) : SampleQueries[q][1] = domain][2]

\* C29: lookupWhois never throws; when the call of the WHOIS service
\* errors or answers with a status outside 200..299 it returns the
\* placeholder: the queried domain, the time of the call, privacyEnabled
\* true and the "Unable to retrieve" summary.
C29_WhoisNeverFails ==
  WhoisCalled =>
    /\ ~fnOutput.threw
    /\ ServiceFailed(fnInput.service) =>
         /\ fnOutput.result["domain"] = QueriedName(fnInput.domain)
         /\ fnOutput.result["timestamp"] = fnInput.at
         /\ fnOutput.result["privacyEnabled"] = TRUE
         /\ StartsWith(fnOutput.result["summary"], "Unable to retrieve")

----------------------------------------------------------------------------
(* The key of the free-tier quota: rateLimiter.ts *)

\* the free-tier requests of one address decided at one instant
DecidedAt(ip, t) == {j \in 1..Len(rlLog) : rlLog[j].ip = ip /\ rlLog[j].at = t}

\* C30: the free-tier quota is kept per client address, whatever the
\* User-Agent and Accept-Language headers of a request are: of the requests
\* of one address decided at one instant at most 3 are admitted, and once
\* one of them is answered 429 every later one of that address at that
\* instant is answered 429 too.
C30_QuotaKeyedByIP ==
  \A i \in 1..Len(rlLog) :
    LET same == DecidedAt(rlLog[i].ip, rlLog[i].at)
    IN /\ Cardinality({j \in same : rlLog[j].status = 200}) <= FREE_TIER_LIMIT
       /\ rlLog[i].status = 429 =>
            \A j \in same : j > i => rlLog[j].status = 429

----------------------------------------------------------------------------
(* Requests that carry an API key: rateLimiter.ts *)

\* the api_keys rows of a key that is not revoked
LiveKeyRows(key) ==
  {k \in 1..Len(LimiterApiKeys) :
     LimiterApiKeys[k].key_hash = key /\ LimiterApiKeys[k].is_active = 1}
\* the status a request with that key is answered with: 200 for a live key
\* of a user with a valid subscription, 403 for a live key of a user
\* without one, 401 for a key that is unknown or revoked
KeyVerdict(key) ==
  IF LiveKeyRows(key) = {} THEN 401
  ELSE IF \E k \in LiveKeyRows(key) :
            hasValidSubscription(LimiterDb, LimiterApiKeys[k].user_id)
    THEN 200
    ELSE 403

\* C31: a request that carries a di_ key is decided by the key and the
\* subscription alone: it is passed on with the unlimited headers for a live
\* key of a subscribed user, answered 403 for a live key without a valid
\* subscription and 401 for an unknown or revoked key; rateLimitStore stays
\* as it was and the free-tier branch takes no part.
C31_KeyedRequests ==
  [][\A req \in SampleRequests :
       (extractApiKey(req) # "" /\ HandleRequest(req)) =>
         /\ rlResponse'.status = KeyVerdict(extractApiKey(req))
         /\ rlResponse'.next = (KeyVerdict(extractApiKey(req)) = 200)
         /\ (rlResponse'.next => rlResponse'.headers.limit = "unlimited")
         /\ rateLimitStore' = rateLimitStore
         /\ rlLog' = rlLog]_vars

\* the quota of the curl fingerprint is used up and the request with the
\* key of the user without a valid subscription was answered 403, not 429
C31_Witness ==
  /\ \E f \in DOMAIN rateLimitStore :
       /\ f = generateFingerprint(Request(ClientIP, Curl, "apiKey" :> "di_bravo", 0))
       /\ rateLimitStore[f].count = FREE_TIER_LIMIT
  /\ rlResponse # NoValue
  /\ rlResponse.status = 403

----------------------------------------------------------------------------
(* The Stripe webhooks in any order and with repeats: billing.ts.  Stripe  *)
(* guarantees neither the order of its events nor that one is delivered    *)
(* once, so any event about a subscription it has created can arrive at    *)
(* any time, carrying any of the statuses a subscription goes through.     *)

STRIPE_STATUSES ==
  {"incomplete", "incomplete_expired", "trialing", "active", "past_due", "canceled",
   "unpaid", "paused"}

\* SubscriptionModel.cancel
cancel(db, row) ==
  [db EXCEPT !.subscriptions[row].status = "cancelled",
             !.subscriptions[row].cancel_at_period_end = 0]

\* handleSubscriptionDeleted(subscription)
handleSubscriptionDeleted(db, subscription) ==
  LET existing == findByStripeId(db, subscription.id)
  IN IF existing # 0 THEN cancel(db, existing) ELSE db

\* the Stripe.Subscription object of a customer.subscription.* event
StripeSubscription(purchase, status, atPeriodEnd) ==
  [user_id |-> purchase.user_id, plan |-> purchase.plan, id |-> purchase.id,
   status |-> status, cancel_at_period_end |-> atPeriodEnd]
\* the Checkout.Session object of a checkout.session.completed event
CheckoutSession(purchase) ==
  [user_id |-> purchase.user_id, plan |-> purchase.plan, id |-> purchase.id]
Purchases == {bPurchases[k] : k \in 1..Len(bPurchases)}

\* the user pays in Stripe Checkout and Stripe creates the subscription
PayInCheckout(u, plan) ==
  /\ u \in bUsers \cap UserIds
  /\ Len(bPurchases) < MaxPurchases
  /\ bPurchases' = Append(bPurchases, [user_id |-> u, id |-> Len(bPurchases) + 1,
                                       plan |-> plan])
  /\ UNCHANGED <<bUsers, bSubs, bReferrals, bCredits, bClock, bInbox, notBilling>>

\* POST /webhook, case 'checkout.session.completed'
WebhookCheckoutCompleted(purchase) ==
  /\ purchase \in Purchases
  /\ Commit(handleCheckoutComplete(Database, CheckoutSession(purchase)))
  /\ UNCHANGED <<bUsers, bInbox, bPurchases, notBilling>>

\* POST /webhook, case 'customer.subscription.created' and '...updated'
WebhookSubscriptionUpdate(purchase, status, atPeriodEnd) ==
  /\ purchase \in Purchases
  /\ Commit(handleSubscriptionUpdate(
              Database, StripeSubscription(purchase, status, atPeriodEnd)))
  /\ UNCHANGED <<bUsers, bInbox, bPurchases, notBilling>>

\* POST /webhook, case 'customer.subscription.deleted'
WebhookSubscriptionDeleted(purchase) ==
  /\ purchase \in Purchases
  /\ Commit(handleSubscriptionDeleted(
              Database, StripeSubscription(purchase, "canceled", FALSE)))
  /\ UNCHANGED <<bUsers, bInbox, bPurchases, notBilling>>

\* a referrer of long standing: user 1 on a paid plan, with three referred
\* users (11, 12, 13) who registered, paid and earned user 1 a month each
EarlierReferred == {11, 12, 13}
PaidUp(u, stripeId) ==
  <<[SubscriptionRow(u, 0, "trial", "active") EXCEPT !.status = "cancelled"],
    SubscriptionRow(u, stripeId, "monthly", "active")>>
SettledReferrer ==
  [users |-> {1} \cup EarlierReferred,
   subscriptions |-> PaidUp(1, 91) \o PaidUp(11, 92) \o PaidUp(12, 93) \o PaidUp(13, 94),
   referrals |-> [k \in 1..3 |->
                    [ReferralRow(1, 10 + k) EXCEPT !.converted_at = k, !.credit_given = 1]],
   credits |-> [k \in 1..3 |-> CreditRow(1, 1, "referral", 10 + k)],
   clock |-> 3]

\* the events are about subscriptions not set to end with their period
CancelChoices == {FALSE}

InitWebhooks ==
  /\ IdleProp /\ IdleAn /\ IdleScore /\ IdleZone /\ IdleEnum /\ IdleLimit /\ IdleFn
  /\ IdleBilling

InitStacking ==
  /\ IdleProp /\ IdleAn /\ IdleScore /\ IdleZone /\ IdleEnum /\ IdleLimit /\ IdleFn
  /\ bUsers = SettledReferrer.users
  /\ bSubs = SettledReferrer.subscriptions
  /\ bReferrals = SettledReferrer.referrals
  /\ bCredits = SettledReferrer.credits
  /\ bClock = SettledReferrer.clock
  /\ bInbox = {}
  /\ bPurchases = <<>>

NextWebhooks ==
  \/ \E u \in UserIds, r \in UserIds \cup {0} : Register(u, r)
  \/ \E u \in UserIds, plan \in Plans : PayInCheckout(u, plan)
  \/ \E p \in Purchases : WebhookCheckoutCompleted(p)
  \/ \E p \in Purchases, status \in STRIPE_STATUSES, c \in CancelChoices :
       WebhookSubscriptionUpdate(p, status, c)
  \/ \E p \in Purchases : WebhookSubscriptionDeleted(p)

SpecWebhooks == InitWebhooks /\ [][NextWebhooks]_vars
SpecStacking == InitStacking /\ [][NextWebhooks]_vars

ReferralCreditsOf(u) ==
  {k \in 1..Len(bCredits) : bCredits[k].user_id = u /\ bCredits[k].reason = "referral"}
ReferralMonthsOf(u) == SumMonths(bCredits, ReferralCreditsOf(u))

\* C32: whatever signups, checkouts and webhooks have happened, no user
\* holds more than 4 months of credits with reason 'referral', applied and
\* unapplied together.
C32_ReferralCreditsCapped ==
  \A u \in bUsers : ReferralMonthsOf(u) <= 4

\* user 1 holds 4 months, and a further referred user has paid and been
\* marked as dealt with without a credit
C32_Witness ==
  /\ 1 \in bUsers
  /\ ReferralMonthsOf(1) = 4
  /\ \E k \in 1..Len(bReferrals) :
       /\ bReferrals[k].referrer_id = 1
       /\ bReferrals[k].credit_given = 1
       /\ \A c \in ReferralCreditsOf(1) :
            bCredits[c].source_user_id # bReferrals[k].referred_id

----------------------------------------------------------------------------
(* The status checkPropagation gives a failed query: dnsResolver.ts *)

SampleEndpoints == {"https://dns.google/resolve", "https://cloudflare-dns.com/dns-query"}
SampleQueriedDomains ==
  {"example.com", "timeout.example.com", "no-timeouts.io", "status.example.org"}
\* how a query fails: the 8 s timer aborts it, the connection fails, the
\* resolver answers outside 200..299, or the body is not JSON
SampleQueryFailures ==
  {[kind |-> "abort", detail |-> "The user aborted a request."]}
  \cup {[kind |-> "network", detail |-> d] :
          d \in {"connect ECONNREFUSED 8.8.8.8:443", "connect ETIMEDOUT 8.8.8.8:443",
                 "getaddrinfo ENOTFOUND dns.google", "socket hang up"}}
  \cup {[kind |-> "http", detail |-> d] :
          d \in {"HTTP 429: Too Many Requests", "HTTP 500: Internal Server Error",
                 "HTTP 503: Service Unavailable", "HTTP 504: Gateway Timeout",
                 "HTTP 400: "}}
  \cup {[kind |-> "json", detail |-> d] :
          d \in {"Unexpected token < in JSON at position 0",
                 "Unexpected end of JSON input"}}

\* the error queryDoHResolver's try block raises, as [name, message]
RaisedError(endpoint, domain, failure) ==
  LET url == RequestUrl(endpoint, domain, "A")
  IN CASE failure.kind = "abort" -> [name |-> "AbortError", message |-> failure.detail]
       [] failure.kind = "network" ->
            [name |-> "FetchError", message |-> FetchErrorMessage(url, failure.detail)]
       [] failure.kind = "http" -> [name |-> "Error", message |-> failure.detail]
       [] failure.kind = "json" ->
            [name |-> "FetchError", message |-> InvalidJsonMessage(url, failure.detail)]

\* the catch of queryDoHResolver and then the catch of checkPropagation's
\* map callback: the status and the error text of the result
FailedResult(endpoint, domain, failure) ==
  LET raised == RaisedError(endpoint, domain, failure)
      message == QueryErrorMessage(raised.name, raised.message)
  IN [status |-> PropagationStatus(message), error |-> message]

CatchQueryFailure ==
  /\ fnOutput = NoValue
  /\ fnOutput' = [result |-> FailedResult(fnInput.endpoint, fnInput.domain, fnInput.failure)]
  /\ UNCHANGED <<fnInput, notFn>>

InitQueryFailure ==
  /\ IdleProp /\ IdleAn /\ IdleScore /\ IdleZone /\ IdleEnum /\ IdleBilling
  /\ IdleLimit
  /\ fnInput \in {[endpoint |-> e, domain |-> d, failure |-> f] :
                    e \in SampleEndpoints, d \in SampleQueriedDomains,
                    f \in SampleQueryFailures}
  /\ fnOutput = NoValue

NextQueryFailure == CatchQueryFailure

SpecQueryFailure == InitQueryFailure /\ [][NextQueryFailure]_vars

\* C33: the result of a failed query has status "timeout" exactly when the
\* 8 s timer aborted the query; a failed connection, a status outside
\* 200..299 and an unparsable body give "error", whatever the text of the
\* error and whatever the queried domain.
C33_TimeoutIffDeadline ==
  (fnOutput # NoValue /\ "failure" \in DOMAIN fnInput) =>
    /\ fnOutput.result.status \in {"timeout", "error"}
    /\ fnOutput.result.status = "timeout" <=> fnInput.failure.kind = "abort"

----------------------------------------------------------------------------
(* The order of the probes of enumerateSubdomains *)

\* the wordlist callbacks that return at once: their name was pushed by
\* the certificate-transparency phase or stands earlier in the slice
SkippedAtStart(pushed, probes, j) ==
  \/ \E i \in 1..Len(pushed) : pushed[i].fullDomain = probes[j].sub \o "." \o QueriedDomain
  \/ \E k \in 1..(j - 1) : probes[k].sub = probes[j].sub

\* C34: while a certificate-transparency candidate is being probed, its one
\* outstanding call (resolution, then the TLS probe) is the only call in
\* flight and every earlier candidate has been pushed; a wordlist probe
\* exists only after the loop over the candidates has ended; and the step
\* that begins the wordlist phase starts the resolution of every name of
\* the slice that is not skipped, all in that one step.
C34_ProbeOrder ==
  /\ [](ctProbe # "none" =>
          /\ wlProbes = <<>>
          /\ InFlight = {CtCall(ctIdx)}
          /\ Len(subdomains) = ctCount)
  /\ [](wlProbes # <<>> => (ctProbe = "none" /\ ctIdx > Len(ctSubdomains)))
  /\ [][(wlProbes = <<>> /\ wlProbes' # <<>>) =>
          \A j \in 1..Len(wlProbes') :
            IF SkippedAtStart(subdomains', wlProbes', j)
              THEN wlProbes'[j].stage = "done"
              ELSE wlProbes'[j].stage = "dnsHeaders" /\ WlCall(j) \in eTimers']_vars

\* a certificate-transparency candidate was probed and pushed, and
\* two wordlist probes are in flight together
C34_Witness ==
  /\ ctCount >= 1
  /\ Len(wlProbes) >= 2
  /\ Cardinality({j \in 1..Len(wlProbes) : wlProbes[j].stage # "done"}) >= 2

----------------------------------------------------------------------------
(* The subscription records the webhooks leave behind *)

LiveRecordsOf(u) ==
  {k \in 1..Len(bSubs) : bSubs[k].user_id = u /\ bSubs[k].status \in {"active", "past_due"}}

\* C35: after any sequence of registrations and subscription webhooks each
\* user has at most one subscription record with status active or past_due.
C35_OneLiveRecord ==
  \A u \in bUsers : Cardinality(LiveRecordsOf(u)) <= 1

\* the record of the Stripe subscription of a purchase, 0 when there is none
RecordOf(subs, purchase) ==
  LET rows == {k \in 1..Len(subs) : subs[k].stripe_subscription_id = purchase.id}
  IN IF rows = {} THEN 0 ELSE FirstOf(rows)

\* C36: after a customer.subscription.created or updated event is handled,
\* the local record of that subscription is 'active' only if the Stripe
\* status the event carried is active or trialing.
C36_ActiveOnlyIfStripeActive ==
  [][\A p \in Purchases, status \in STRIPE_STATUSES, c \in CancelChoices :
       (WebhookSubscriptionUpdate(p, status, c)
          /\ RecordOf(bSubs', p) # 0
          /\ bSubs'[RecordOf(bSubs', p)].status = "active")
       => status \in {"active", "trialing"}]_vars

CreditsCausedBy(u) ==
  {k \in 1..Len(bCredits) :
     bCredits[k].reason = "referral" /\ bCredits[k].source_user_id = u}

\* C39: whatever webhooks were delivered, in whatever order and however
\* often, no referred user is the source of more than one referral credit.
C39_OneCreditPerReferredUser ==
  \A u \in bUsers : Cardinality(CreditsCausedBy(u)) <= 1

\* a referred user has paid, the checkout event and the subscription event
\* of the purchase were both handled, and the referrer holds the one credit
C39_Witness ==
  \E k \in 1..Len(bReferrals) :
    /\ bReferrals[k].credit_given = 1
    /\ bReferrals[k].converted_at # 0
    /\ Cardinality(CreditsCausedBy(bReferrals[k].referred_id)) = 1
    /\ \E p \in Purchases :
         p.user_id = bReferrals[k].referred_id /\ RecordOf(bSubs, p) # 0

----------------------------------------------------------------------------
(* A failed fetch in the report of analyzeZoneHealth *)

\* the issue each validator raises for an empty list of records
AbsenceMessage ==
  [t \in {"SOA", "NS", "A", "MX", "TXT"} |->
     CASE t = "SOA" -> "No SOA record found"
       [] t = "NS"  -> "No NS records found"
       [] t = "A"   -> "No A records found for root domain"
       [] t = "MX"  -> "No MX records found"
       [] t = "TXT" -> "No TXT records found"]

\* C37: a record type whose fetch failed contributes its General warning
\* only: the report holds no "No ... record(s) found" issue for that type.
C37_FailedFetchNotAbsent ==
  zState = "done" =>
    \A t \in zFailed \cap DOMAIN AbsenceMessage :
      \A k \in 1..Len(zReport.issues) :
        ~(zReport.issues[k].category = t /\ zReport.issues[k].message = AbsenceMessage[t])

----------------------------------------------------------------------------
(* What analyzePropagation calls propagated *)

\* C38: analyzePropagation reports propagated = TRUE only if some
\* successful resolver returned an address, that is, only with a non-empty
\* ipAddresses; successes that carry an empty answer (NXDOMAIN, SERVFAIL,
\* no data) do not count as the record having propagated.
C38_PropagatedHasAddress ==
  (anOutput # NoValue /\ anOutput.propagated) => anOutput.ipAddresses # <<>>

----------------------------------------------------------------------------
(* A limited client and the end of its window *)

\* the resetAt in force for a fingerprint after the first j decisions of
\* the log, -1 when it has made no request: a window opens with the first
\* request and with each request that comes after the resetAt before it
RECURSIVE WindowEndAfter(_, _)
WindowEndAfter(fingerprint, j) ==
  IF j = 0 THEN -1
  ELSE LET before == WindowEndAfter(fingerprint, j - 1)
       IN IF rlLog[j].fingerprint # fingerprint THEN before
          ELSE IF before = -1 \/ before < rlLog[j].at
            THEN rlLog[j].at + LIMIT_WINDOW_MS
          ELSE before
\* the latest decision about a fingerprint, 0 when there is none
LastDecision(fingerprint) ==
  LET own == {j \in 1..Len(rlLog) : rlLog[j].fingerprint = fingerprint}
  IN IF own = {} THEN 0 ELSE LastOf(own)
WasLimited(fingerprint) ==
  LastDecision(fingerprint) # 0 /\ rlLog[LastDecision(fingerprint)].status = 429

\* C40: a free-tier request answered 429 leaves the store as it was, no
\* stored count exceeds 3, and a client whose latest request was rejected
\* is admitted, with a new window and count 1, by its first request after
\* the resetAt of the window that limited it, whether its entry is still
\* in the store or the cleanup has removed it.
C40_LimitedThenReadmitted ==
  /\ [](\A fp \in DOMAIN rateLimitStore : rateLimitStore[fp].count <= FREE_TIER_LIMIT)
  /\ [][\A req \in SampleRequests :
          (HandleRequest(req) /\ rlLog' # rlLog) =>
            LET fp == generateFingerprint(req) IN
            /\ rlResponse'.status = 429 =>
                 /\ rateLimitStore' = rateLimitStore
                 /\ fp \in DOMAIN rateLimitStore
                 /\ rateLimitStore[fp].count = FREE_TIER_LIMIT
            /\ (WasLimited(fp) /\ rlNow > WindowEndAfter(fp, Len(rlLog))) =>
                 /\ rlResponse'.status = 200
                 /\ rateLimitStore'[fp].count = 1
                 /\ rateLimitStore'[fp].resetAt = rlNow + LIMIT_WINDOW_MS]_vars

\* a client was rejected, kept its entry past resetAt (no cleanup ran in
\* between for it) or lost it, and was admitted again with count 1
C40_Witness ==
  \E fp \in DOMAIN rateLimitStore :
    /\ rateLimitStore[fp].count = 1
    /\ rateLimitStore[fp].firstRequest = rlNow
    /\ LastDecision(fp) # 0
    /\ rlLog[LastDecision(fp)].status = 200
    /\ \E j \in 1..(LastDecision(fp) - 1) :
         rlLog[j].fingerprint = fp /\ rlLog[j].status = 429

====
